---- MODULE Spec2Model ----
(***************************************************************************)
(* A model of the OMR sheet evaluation pipeline:                           *)
(*   main.py           main()  (identification validation, response        *)
(*                     validation, scoring, summary)                       *)
(*   omr_processor.py  OMRProcessor.scan_for_bubbles,                      *)
(*                     map_bubbles_to_structure, extract_roll_digits       *)
(*                                                                         *)
(* Python strings that the code formats, splits, parses or compares        *)
(* character by character (mark ids, dictionary keys, the identification   *)
(* number, the OCR string) are sequences of one-character strings.         *)
(* Strings that are only compared for equality as a whole (option values,  *)
(* labels, statuses, block names) are TLA+ strings; every label and        *)
(* option of the model is one character long.                              *)
(***************************************************************************)
EXTENDS Integers, Sequences, FiniteSets, TLC

VARIABLES
    \* ---- main() ----
    pc,                 \* position in main()
    template_found,     \* os.path.exists(template_path)
    pdf,                \* the source document: "pages", "no_images", "raises", "missing"
    page_marks,         \* what detection, mapping and evaluation yield on its first page
    image,              \* "page", or "blank" (np.ones(...) * 255); "none" until loaded
    raw_bubbles,        \* list returned by scan_for_bubbles
    evaluated_bubbles,  \* list returned by evaluate_bubbles
    key_file,           \* answer_key.json: whether it exists, and its "answers"
    ocr_engine,         \* what extract_roll_digits returns for this image
    roll_cols_detected, \* dict col_idx -> list of filled values
    final_roll_chars,
    rollNumber,         \* final_output['rollNumber']
    rollValidation,     \* final_output['rollValidation'] (NoKey when unset)
    ocrRollNumber,      \* final_output['ocrRollNumber'] (ocr_roll)
    responses,          \* final_output['responses']
    answer_key,
    max_q,
    i,                  \* loop variable of the scoring loop
    correct_count, wrong_count, unanswered_count,
    score_details,
    summary,            \* final_output['summary'] (NoKey until built)
    \* ---- OMRProcessor.extract_roll_digits ----
    ocr_pc,             \* position in extract_roll_digits
    pytesseract,        \* the recognition engine was imported
    rn_conf,            \* headerBlocks.get('rollNumber')
    strip_rects,        \* bounding boxes of the contours of the search region
    v_lines,            \* bounding boxes of the vertical-line contours of the strip
    boxes,              \* _get_roll_roi_boxes(image)
    idx,                \* index of the digit cell
    variant,            \* index of the image variant of the digit-only loop
    found_digit,
    detected_res,
    calls,              \* recognition calls made for the current cell
    ocr_return,         \* the value returned (NoKey until then)
    ocr_raised,         \* an exception left extract_roll_digits
    \* ---- OMRProcessor.map_bubbles_to_structure ----
    template,           \* self.template (the layout descriptor)
    detected_bubbles,   \* the candidates: dicts that the mapper annotates in place
    mapped_bubbles,     \* the list returned: references (indices) into the candidates
    map_runs,           \* how often the mapper ran on detected_bubbles
    first_run,          \* mapped_bubbles and the candidates after the first run
    \* ---- OMRProcessor.scan_for_bubbles ----
    det_pc,             \* "scan", "scanned", "done" ("idle": not running)
    radius,             \* self.radius
    contours,           \* what cv2.findContours returned
    final_bubbles,      \* the list returned
    resuppressed,       \* duplicate suppression applied to final_bubbles
    \* ---- OMRProcessor.evaluate_bubbles ----
    eval_pc,            \* "evaluate", "done" ("idle": not running)
    bubble_style,       \* self.template.get('bubbleStyle', {})
    thresh_img,         \* per mark: ink pixels of the thresholded image in its disk
    eval_bubbles        \* the marks: dicts that gain fill_ratio and filled

sheetIn == <<template_found, pdf, page_marks, image, raw_bubbles>>

mainVars == <<pc, sheetIn, evaluated_bubbles, key_file, ocr_engine, roll_cols_detected,
              final_roll_chars, rollNumber, rollValidation, ocrRollNumber,
              responses, answer_key, max_q, i, correct_count, wrong_count,
              unanswered_count, score_details, summary>>

ocrIn == <<rn_conf, strip_rects, v_lines>>

ocrVars == <<ocr_pc, ocrIn, pytesseract, boxes, idx, variant, found_digit, detected_res,
             calls, ocr_return, ocr_raised>>

mapVars == <<template, detected_bubbles, mapped_bubbles, map_runs, first_run>>

detVars == <<det_pc, radius, contours, final_bubbles, resuppressed>>

evalVars == <<eval_pc, bubble_style, thresh_img, eval_bubbles>>

vars == <<mainVars, ocrVars, mapVars, detVars, evalVars>>

\* what the steps of one entry point leave alone
notMain == <<ocrVars, mapVars, detVars, evalVars>>
notOcr == <<mainVars, mapVars, detVars, evalVars>>
notMap == <<mainVars, ocrVars, detVars, evalVars>>
notDet == <<mainVars, ocrVars, mapVars, evalVars>>
notEval == <<mainVars, ocrVars, mapVars, detVars>>

----------------------------------------------------------------------------
(* Bounds of the model *)

\* question numbers of the sheets and answer keys that main() is run on
MaxQ == 2
\* identification columns (digits) of the sheets that main() is run on
MaxDigits == 2
\* digit cells of the sheets that extract_roll_digits is run on
MaxCells == 2
\* printed marks that the detector missed on the sheets the mapper is run on
MaxDrop == 1
\* runs of the mapper on one candidate list
MaxRuns == 2
\* contours of the images the detector is run on
MaxContours == 3
\* marks handed to evaluate_bubbles
MaxMarks == 2

----------------------------------------------------------------------------
(* Python values *)

None == <<"<None>">>
NoKey == <<"<absent>">>
EmptyDict == [k \in {} |-> 0]
NoQuestion == 0 - 1
\* a section of headerBlocks: absent, or present with its dict
NoBlock == [present |-> FALSE, conf |-> EmptyDict]
HeaderBlock(conf) == [present |-> TRUE, conf |-> conf]

Min(a, b) == IF a < b THEN a ELSE b
Max(a, b) == IF a > b THEN a ELSE b
SetMax(S) == CHOOSE m \in S : \A n \in S : n <= m

\* characters in ASCII order (only their relative order is used)
AsciiOrder == <<"!", "$", ".", "0", "1", "2", "3", "4", "5", "6", "7", "8", "9",
                "?", "A", "B", "C", "D", "E", "G", "H", "I", "L", "M", "N", "O",
                "P", "R", "S", "T", "U", "V", "Z", "]", "_",
                "a", "b", "c", "e", "g", "k", "l", "o", "q", "r", "s", "t", "v",
                "x", "z", "|">>
Ord(c) == CHOOSE k \in 1..Len(AsciiOrder) : AsciiOrder[k] = c

Digits == <<"0", "1", "2", "3", "4", "5", "6", "7", "8", "9">>
IsDigitChar(c) == \E k \in 1..10 : Digits[k] = c
DigitVal(c) == (CHOOSE k \in 1..10 : Digits[k] = c) - 1

\* str(n) for an int n >= 0
RECURSIVE Str(_)
Str(n) == IF n < 10 THEN <<Digits[n + 1]>>
          ELSE Str(n \div 10) \o <<Digits[(n % 10) + 1]>>

\* str(v) of b.get('question'): an int, or None
StrPy(v) == IF v = NoQuestion THEN <<"N", "o", "n", "e">> ELSE Str(v)

\* int(s) succeeds (no sign, blank or underscore occurs in the model's strings)
IsInt(s) == Len(s) > 0 /\ \A k \in 1..Len(s) : IsDigitChar(s[k])
RECURSIVE ParseInt(_)
ParseInt(s) == IF Len(s) = 0 THEN 0
               ELSE 10 * ParseInt(SubSeq(s, 1, Len(s) - 1)) + DigitVal(s[Len(s)])

\* s < t for Python strings
RECURSIVE StrLess(_, _)
StrLess(s, t) ==
    IF Len(t) = 0 THEN FALSE
    ELSE IF Len(s) = 0 THEN TRUE
    ELSE IF s[1] = t[1] THEN StrLess(Tail(s), Tail(t))
    ELSE Ord(s[1]) < Ord(t[1])

\* sub in s
Contains(s, sub) ==
    \E k \in 1..(Len(s) - Len(sub) + 1) : SubSeq(s, k, k + Len(sub) - 1) = sub

StartsWith(s, pre) == Len(s) >= Len(pre) /\ SubSeq(s, 1, Len(pre)) = pre

\* s.split(sep) for a one-character sep: the list of pieces
RECURSIVE SplitFrom(_, _, _)
SplitFrom(s, sep, cur) ==
    IF Len(s) = 0 THEN <<cur>>
    ELSE IF s[1] = sep THEN <<cur>> \o SplitFrom(Tail(s), sep, <<>>)
    ELSE SplitFrom(Tail(s), sep, Append(cur, s[1]))
Split(s, sep) == SplitFrom(s, sep, <<>>)

\* s.replace(old, '') : every occurrence of old removed, left to right
RECURSIVE Remove(_, _)
Remove(s, old) ==
    IF Len(s) < Len(old) THEN s
    ELSE IF SubSeq(s, 1, Len(old)) = old
         THEN Remove(SubSeq(s, Len(old) + 1, Len(s)), old)
         ELSE <<s[1]>> \o Remove(Tail(s), old)

\* the characters of a (one-character) label or option value
Chars(v) == <<v>>

\* "".join(list)
RECURSIVE Join(_)
Join(list) == IF Len(list) = 0 THEN <<>> ELSE Chars(list[1]) \o Join(Tail(list))

\* list.sort(key=...) is stable: insertion sort, an element goes after its equals.
\* key is the function element -> integer key
RECURSIVE InsertByKey(_, _, _)
InsertByKey(sorted, e, key) ==
    IF Len(sorted) = 0 THEN <<e>>
    ELSE IF key[e] < key[sorted[1]] THEN <<e>> \o sorted
    ELSE <<sorted[1]>> \o InsertByKey(Tail(sorted), e, key)
RECURSIVE SortByKey(_, _)
SortByKey(list, key) ==
    IF Len(list) = 0 THEN <<>>
    ELSE InsertByKey(SortByKey(SubSeq(list, 1, Len(list) - 1), key),
                     list[Len(list)], key)

\* list.sort(key=lambda x: x['id']) (stable, string order)
RECURSIVE InsertById(_, _)
InsertById(sorted, e) ==
    IF Len(sorted) = 0 THEN <<e>>
    ELSE IF StrLess(e.id, sorted[1].id) THEN <<e>> \o sorted
    ELSE <<sorted[1]>> \o InsertById(Tail(sorted), e)
RECURSIVE SortById(_)
SortById(list) ==
    IF Len(list) = 0 THEN <<>>
    ELSE InsertById(SortById(SubSeq(list, 1, Len(list) - 1)), list[Len(list)])

\* sorted(set of ints) as a list
RECURSIVE SortedInts(_)
SortedInts(S) ==
    IF S = {} THEN <<>>
    ELSE LET m == CHOOSE x \in S : \A y \in S : x <= y
         IN <<m>> \o SortedInts(S \ {m})

\* d.get(k, default)
Get(d, k, default) == IF k \in DOMAIN d THEN d[k] ELSE default
\* d[k] = v
Put(d, k, v) == [x \in (DOMAIN d) \cup {k} |-> IF x = k THEN v ELSE d[x]]

----------------------------------------------------------------------------
(* Mark identities, as map_bubbles_to_structure formats them *)

RollId(d_idx, lbl) ==
    <<"r", "o", "l", "l", "_", "c", "o", "l">> \o Str(d_idx)
        \o <<"_", "v", "a", "l">> \o Chars(lbl)
BookletId(opt) ==
    <<"t", "e", "s", "t", "B", "o", "o", "k", "l", "e", "t", "_">> \o Chars(opt)
QuestionId(q_num, opt_val) == <<"q">> \o Str(q_num) \o <<"_">> \o Chars(opt_val)

----------------------------------------------------------------------------
(* main(): the sheets, recognition results and answer keys it is run on *)

\* labels of the identification rows and option letters of the model's layout
RollLabels == <<"0", "1">>
QOptions == <<"A", "B">>
\* names of question blocks in a layout: main() looks at the prefix 'col'
BlockNames == {<<"c", "o", "l", "1">>, <<"B", "l", "o", "c", "k", "1">>}
RollGroup == <<"r", "o", "l", "l", "N", "u", "m", "b", "e", "r">>
BookletGroup == <<"t", "e", "s", "t", "B", "o", "o", "k", "l", "e", "t",
                  "C", "o", "d", "e">>

Mark(id, group, value, question, filled) ==
    [id |-> id, group |-> group, value |-> value, question |-> question,
     filled |-> filled]

\* the identification marks, column by column and top to bottom;
\* fill is the set of <<column, row>> that are filled
RECURSIVE RollMarks(_, _, _)
RollMarks(fill, d, r) ==
    IF d >= MaxDigits THEN <<>>
    ELSE IF r > Len(RollLabels) THEN RollMarks(fill, d + 1, 1)
    ELSE <<Mark(RollId(d, RollLabels[r]), RollGroup, RollLabels[r], NoQuestion,
                <<d, r>> \in fill)>>
         \o RollMarks(fill, d, r + 1)

BookletMarks ==
    <<Mark(BookletId("A"), BookletGroup, "A", NoQuestion, TRUE),
      Mark(BookletId("B"), BookletGroup, "B", NoQuestion, FALSE)>>

\* the question marks: cfg[q] is NoKey (no mark of question q was mapped) or
\* <<block name, set of filled options>>
RECURSIVE QuestionMarks(_, _, _)
QuestionMarks(cfg, q, c) ==
    IF q > MaxQ THEN <<>>
    ELSE IF cfg[q] = NoKey \/ c > Len(QOptions) THEN QuestionMarks(cfg, q + 1, 1)
    ELSE <<Mark(QuestionId(q, QOptions[c]), cfg[q][1], QOptions[c], q,
                QOptions[c] \in cfg[q][2])>>
         \o QuestionMarks(cfg, q, c + 1)

OptionSet == {QOptions[c] : c \in 1..Len(QOptions)}
RollCells == (0..(MaxDigits - 1)) \X (1..Len(RollLabels))
QCellSet == {NoKey} \cup {<<b, f>> : b \in BlockNames, f \in SUBSET OptionSet}
QuestionCfgs == [1..MaxQ -> QCellSet]

Sheet(fill, cfg) ==
    RollMarks(fill, 0, 1) \o BookletMarks \o QuestionMarks(cfg, 1, 1)

\* answer_key.json: the file is missing, or maps question numbers (as text)
\* to one option letter each
KeyFiles ==
    {[exists |-> FALSE, answers |-> EmptyDict]} \cup
    {[exists |-> TRUE, answers |-> a] :
        a \in UNION {[{Str(q) : q \in Q} -> OptionSet] : Q \in SUBSET (1..MaxQ)}}

\* extract_roll_digits: "NO_OCR", None, or one character per digit
NO_OCR == <<"N", "O", "_", "O", "C", "R">>
OcrChars == {"0", "1", "?"}
OcrResults == {NO_OCR, None} \cup [1..MaxDigits -> OcrChars]

INVALID == <<"I", "N", "V", "A", "L", "I", "D">>

----------------------------------------------------------------------------
(* main(), src/main.py *)

DefaultMaxQ == 60

\* line 58-59
RollBubbles(bubbles) ==
    SortById(SelectSeq(bubbles, LAMBDA b : b.group = RollGroup /\ b.filled))

\* lines 66-73: the dict col_idx -> values of the filled marks of that column
RECURSIVE RollColsDetected(_, _)
RollColsDetected(list, d) ==
    IF Len(list) = 0 THEN d
    ELSE LET b == list[1]
             pieces == Split(b.id, "_")
         IN  IF Len(pieces) < 2 THEN RollColsDetected(Tail(list), d)  \* IndexError
             ELSE LET t == Remove(pieces[2], <<"c", "o", "l">>)
                  IN  IF ~IsInt(t) THEN RollColsDetected(Tail(list), d)  \* ValueError
                      ELSE LET col_idx == ParseInt(t)
                           IN  RollColsDetected(Tail(list),
                                   Put(d, col_idx,
                                       Append(Get(d, col_idx, <<>>), b.value)))

\* line 91
RollErrorReason(col, n) == <<"Column ", Str(col), " has ", Str(n), " bubbles filled">>

\* RollScan without the break: the scan goes on and a later offending column
\* overwrites the reason
RECURSIVE RollScanNoBreak(_, _, _)
RollScanNoBreak(d, sorted_cols, chars) ==
    IF Len(sorted_cols) = 0
    THEN [is_roll_invalid |-> FALSE, reason |-> <<>>, chars |-> chars]
    ELSE LET col == sorted_cols[1]
             vals == d[col]
             rest == RollScanNoBreak(d, Tail(sorted_cols),
                         Append(chars, IF Len(vals) > 1 THEN "?" ELSE vals[1]))
         IN  IF Len(vals) > 1 /\ ~rest.is_roll_invalid
             THEN [is_roll_invalid |-> TRUE,
                   reason |-> RollErrorReason(col, Len(vals)),
                   chars |-> rest.chars]
             ELSE rest

\* RollScan taking the columns from the highest index down
RECURSIVE RollScanDescending(_, _, _)
RollScanDescending(d, sorted_cols, chars) ==
    IF Len(sorted_cols) = 0
    THEN [is_roll_invalid |-> FALSE, reason |-> <<>>, chars |-> chars]
    ELSE LET col == sorted_cols[Len(sorted_cols)]
             vals == d[col]
         IN  IF Len(vals) > 1
             THEN [is_roll_invalid |-> TRUE,
                   reason |-> RollErrorReason(col, Len(vals)),
                   chars |-> Append(chars, "?")]
             ELSE RollScanDescending(d, SubSeq(sorted_cols, 1, Len(sorted_cols) - 1),
                                     Append(chars, vals[1]))

\* lines 87-95: the loop over sorted_cols, left at the first column with
\* more than one filled mark
RECURSIVE RollScan(_, _, _)
RollScan(d, sorted_cols, chars) ==
    IF Len(sorted_cols) = 0
    THEN [is_roll_invalid |-> FALSE, reason |-> <<>>, chars |-> chars]
    ELSE LET col == sorted_cols[1]
             vals == d[col]
         IN  IF Len(vals) > 1
             THEN [is_roll_invalid |-> TRUE,
                   reason |-> RollErrorReason(col, Len(vals)),
                   chars |-> Append(chars, "?")]
             ELSE RollScan(d, Tail(sorted_cols), Append(chars, vals[1]))

\* lines 57-102
ProcessRoll ==
    /\ UNCHANGED notMain
    /\ UNCHANGED sheetIn
    /\ pc = "roll"
    /\ LET d == RollColsDetected(RollBubbles(evaluated_bubbles), EmptyDict)
           scan == RollScan(d, SortedInts(DOMAIN d), <<>>)
       IN  /\ roll_cols_detected' = d
           /\ IF DOMAIN d # {}
              THEN /\ final_roll_chars' = scan.chars
                   /\ rollNumber' = IF scan.is_roll_invalid THEN INVALID
                                    ELSE Join(scan.chars)
                   /\ rollValidation' = IF scan.is_roll_invalid THEN scan.reason
                                        ELSE <<"OK">>
              ELSE UNCHANGED <<final_roll_chars, rollNumber, rollValidation>>
    /\ pc' = "ocr"
    /\ UNCHANGED <<evaluated_bubbles, key_file, ocr_engine, ocrRollNumber,
                   responses, answer_key, max_q, i, correct_count, wrong_count,
                   unanswered_count, score_details, summary>>

\* lines 104-113
OcrValidation ==
    /\ UNCHANGED notMain
    /\ UNCHANGED sheetIn
    /\ pc = "ocr"
    /\ ocrRollNumber' = IF ocr_engine = NO_OCR THEN <<>> ELSE ocr_engine
    /\ pc' = "responses"
    /\ UNCHANGED <<evaluated_bubbles, key_file, ocr_engine, roll_cols_detected,
                   final_roll_chars, rollNumber, rollValidation, responses,
                   answer_key, max_q, i, correct_count, wrong_count,
                   unanswered_count, score_details, summary>>

\* the test of the identity alone, whatever the name of the block
IsQuestionMarkAnyBlock(b) == Contains(b.id, <<"q">>)

\* line 120
IsQuestionMark(b) ==
    Contains(b.id, <<"q">>) /\ StartsWith(b.group, <<"c", "o", "l">>)

\* lines 118-124
RECURSIVE QGroups(_, _)
QGroups(list, g) ==
    IF Len(list) = 0 THEN g
    ELSE LET b == list[1]
         IN  IF IsQuestionMark(b)
             THEN LET q_num == StrPy(b.question)
                      g1 == IF q_num \notin DOMAIN g THEN Put(g, q_num, <<>>) ELSE g
                      g2 == IF b.filled
                            THEN Put(g1, q_num, Append(g1[q_num], b.value))
                            ELSE g1
                  IN  QGroups(Tail(list), g2)
             ELSE QGroups(Tail(list), g)

\* Response with the two length tests in the wrong order and >= for ==
ResponseFirstOfMany(selected) ==
    IF Len(selected) >= 1 THEN selected[1]
    ELSE IF Len(selected) > 1 THEN "MULTIPLE"
    ELSE ""

\* lines 126-132
Response(selected) ==
    IF Len(selected) = 1 THEN selected[1]
    ELSE IF Len(selected) > 1 THEN "MULTIPLE"
    ELSE ""

ProcessResponses ==
    /\ UNCHANGED notMain
    /\ UNCHANGED sheetIn
    /\ pc = "responses"
    /\ LET q_groups == QGroups(evaluated_bubbles, EmptyDict)
       IN  responses' = [q \in DOMAIN q_groups |-> Response(q_groups[q])]
    /\ pc' = "key"
    /\ UNCHANGED <<evaluated_bubbles, key_file, ocr_engine, roll_cols_detected,
                   final_roll_chars, rollNumber, rollValidation, ocrRollNumber,
                   answer_key, max_q, i, correct_count, wrong_count,
                   unanswered_count, score_details, summary>>

\* MaxQuestion taking the range from the detected responses alone, and the
\* default when there are none
MaxQuestionKeyIgnored(resp, key) ==
    LET all_q_nums == {ParseInt(k) : k \in DOMAIN resp}
    IN  IF all_q_nums = {} \/ DOMAIN key # {} THEN DefaultMaxQ ELSE SetMax(all_q_nums)

\* MaxQuestion counting the question numbers instead of taking the largest
MaxQuestionByCount(resp, key) ==
    LET all_q_nums == {ParseInt(k) : k \in DOMAIN resp}
                          \cup {ParseInt(k) : k \in DOMAIN key}
    IN  IF all_q_nums = {} THEN DefaultMaxQ ELSE Cardinality(all_q_nums)

\* lines 153-158
MaxQuestion(resp, key) ==
    LET all_q_nums == {ParseInt(k) : k \in DOMAIN resp}
                          \cup {ParseInt(k) : k \in DOMAIN key}
    IN  IF all_q_nums = {} THEN DefaultMaxQ ELSE SetMax(all_q_nums)

\* lines 134-158: the answer key, the counters and the range of the loop
LoadAnswerKey ==
    /\ UNCHANGED notMain
    /\ UNCHANGED sheetIn
    /\ pc = "key"
    /\ answer_key' = IF key_file.exists THEN key_file.answers ELSE EmptyDict
    /\ correct_count' = 0
    /\ wrong_count' = 0
    /\ unanswered_count' = 0
    /\ score_details' = <<>>
    /\ max_q' = MaxQuestion(responses, answer_key')
    /\ i' = 1
    /\ pc' = "score"
    /\ UNCHANGED <<evaluated_bubbles, key_file, ocr_engine, roll_cols_detected,
                   final_roll_chars, rollNumber, rollValidation, ocrRollNumber,
                   responses, summary>>

\* Grade with a MULTIPLE response falling through to the unanswered branch
GradeMultipleUnanswered(response, correct) ==
    IF response # "" /\ response # "MULTIPLE"
    THEN IF response = correct
         THEN [status |-> "CORRECT", reason |-> "", counter |-> "correct"]
         ELSE [status |-> "WRONG", reason |-> "", counter |-> "wrong"]
    ELSE [status |-> IF response = "MULTIPLE" THEN "INVALID_MULTIPLE" ELSE "UNANSWERED",
          reason |-> "", counter |-> "unanswered"]

\* Grade with a WRONG response that increments no counter
GradeWrongUncounted(response, correct) ==
    IF response # ""
    THEN IF response = "MULTIPLE"
         THEN [status |-> "INVALID_MULTIPLE", reason |-> "Multiple options filled",
               counter |-> "wrong"]
         ELSE IF response = correct
         THEN [status |-> "CORRECT", reason |-> "", counter |-> "correct"]
         ELSE [status |-> "WRONG", reason |-> "", counter |-> "none"]
    ELSE [status |-> "UNANSWERED", reason |-> "", counter |-> "unanswered"]

\* lines 165-179: status, reason and the counter that is incremented
Grade(response, correct) ==
    IF response # ""
    THEN IF response = "MULTIPLE"
         THEN [status |-> "INVALID_MULTIPLE", reason |-> "Multiple options filled",
               counter |-> "wrong"]
         ELSE IF response = correct
         THEN [status |-> "CORRECT", reason |-> "", counter |-> "correct"]
         ELSE [status |-> "WRONG", reason |-> "", counter |-> "wrong"]
    ELSE [status |-> "UNANSWERED", reason |-> "", counter |-> "unanswered"]

\* lines 160-187: one iteration of the scoring loop
ScoreStep ==
    /\ UNCHANGED notMain
    /\ UNCHANGED sheetIn
    /\ pc = "score"
    /\ i <= max_q
    /\ LET q_str == Str(i)
           response == Get(responses, q_str, "")
           correct == Get(answer_key, q_str, "")
           g == Grade(response, correct)
       IN  /\ correct_count' = correct_count + (IF g.counter = "correct" THEN 1 ELSE 0)
           /\ wrong_count' = wrong_count + (IF g.counter = "wrong" THEN 1 ELSE 0)
           /\ unanswered_count' =
                  unanswered_count + (IF g.counter = "unanswered" THEN 1 ELSE 0)
           /\ score_details' = Append(score_details,
                  [question |-> i, marked |-> response, correct |-> correct,
                   status |-> g.status, reason |-> g.reason])
    /\ i' = i + 1
    /\ UNCHANGED <<pc, evaluated_bubbles, key_file, ocr_engine, roll_cols_detected,
                   final_roll_chars, rollNumber, rollValidation, ocrRollNumber,
                   responses, answer_key, max_q, summary>>

\* line 197: a non-empty string is true, "" and None are not
Truthy(s) == s # <<>> /\ s # None

\* RollMatchOcr comparing the lengths of the two strings only
RollMatchOcrByLength(roll, ocr_roll) ==
    IF Truthy(ocr_roll) THEN (IF Len(roll) = Len(ocr_roll) THEN "True" ELSE "False")
    ELSE "N/A"

RollMatchOcr(roll, ocr_roll) ==
    IF Truthy(ocr_roll) THEN (IF roll = ocr_roll THEN "True" ELSE "False")
    ELSE "N/A"

\* lines 189-199
Summarize ==
    /\ UNCHANGED notMain
    /\ UNCHANGED sheetIn
    /\ pc = "score"
    /\ i > max_q
    /\ summary' = [total_questions |-> max_q,
                   correct |-> correct_count,
                   wrong |-> wrong_count,
                   unanswered |-> unanswered_count,
                   score |-> correct_count,
                   roll_match_ocr |-> RollMatchOcr(rollNumber, ocrRollNumber)]
    /\ pc' = "done"
    /\ UNCHANGED <<evaluated_bubbles, key_file, ocr_engine, roll_cols_detected,
                   final_roll_chars, rollNumber, rollValidation, ocrRollNumber,
                   responses, answer_key, max_q, i, correct_count, wrong_count,
                   unanswered_count, score_details>>

\* the source document and the rasterizer (process_pdf): pages, an empty
\* list, an exception, or no file
PdfStates == {"pages", "no_images", "raises", "missing"}

\* lines 8-32
LoadImageResult ==
    IF ~template_found THEN [pc |-> "returned", image |-> "none"]
    ELSE IF pdf = "pages" THEN [pc |-> "scan", image |-> "page"]
    ELSE [pc |-> "scan", image |-> "blank"]

LoadImage ==
    /\ UNCHANGED notMain
    /\ pc = "start"
    /\ pc' = LoadImageResult.pc
    /\ image' = LoadImageResult.image
    /\ UNCHANGED <<template_found, pdf, page_marks, raw_bubbles, evaluated_bubbles,
                   key_file, ocr_engine, roll_cols_detected, final_roll_chars,
                   rollNumber, rollValidation, ocrRollNumber, responses, answer_key,
                   max_q, i, correct_count, wrong_count, unanswered_count,
                   score_details, summary>>

\* RunPipeline returning when no mark was detected, as generate_key does
RunPipelineStopsOnEmpty ==
    /\ UNCHANGED notMain
    /\ pc = "scan"
    /\ raw_bubbles' = IF image = "page"
                      THEN [k \in 1..Len(page_marks) |-> [x |-> k, y |-> k]]
                      ELSE <<>>
    /\ evaluated_bubbles' = IF Len(raw_bubbles') = 0 THEN <<>> ELSE page_marks
    /\ pc' = IF Len(raw_bubbles') = 0 THEN "returned" ELSE "roll"
    /\ UNCHANGED <<template_found, pdf, page_marks, image,
                   key_file, ocr_engine, roll_cols_detected, final_roll_chars,
                   rollNumber, rollValidation, ocrRollNumber, responses, answer_key,
                   max_q, i, correct_count, wrong_count, unanswered_count,
                   score_details, summary>>

\* lines 34-46: the blank image has no contour; the mapper and the evaluator
\* loop over the candidates only and return [] for []
RunPipeline ==
    /\ UNCHANGED notMain
    /\ pc = "scan"
    /\ raw_bubbles' = IF image = "page"
                      THEN [k \in 1..Len(page_marks) |-> [x |-> k, y |-> k]]
                      ELSE <<>>
    /\ evaluated_bubbles' = IF Len(raw_bubbles') = 0 THEN <<>> ELSE page_marks
    /\ pc' = "roll"
    /\ UNCHANGED <<template_found, pdf, page_marks, image,
                   key_file, ocr_engine, roll_cols_detected, final_roll_chars,
                   rollNumber, rollValidation, ocrRollNumber, responses, answer_key,
                   max_q, i, correct_count, wrong_count, unanswered_count,
                   score_details, summary>>

\* A sheet whose identification block is varied, and a sheet whose question
\* blocks and answer key are varied
SimpleCfg == [q \in 1..MaxQ |-> IF q = 1 THEN <<<<"c", "o", "l", "1">>, {"A"}>> ELSE NoKey]
SimpleKey == [exists |-> TRUE, answers |-> [k \in {Str(1)} |-> "A"]]
SimpleFill == {<<d, 1>> : d \in 0..(MaxDigits - 1)}
SimpleOcr == [d \in 1..MaxDigits |-> "0"]

MainInit ==
    /\ pc = "start"
    /\ \/ /\ \E fill \in SUBSET RollCells : page_marks = Sheet(fill, SimpleCfg)
          /\ ocr_engine \in OcrResults
          /\ key_file = SimpleKey
          /\ template_found = TRUE
          /\ pdf = "pages"
       \/ /\ \E cfg \in QuestionCfgs : page_marks = Sheet(SimpleFill, cfg)
          /\ ocr_engine = SimpleOcr
          /\ key_file \in KeyFiles
          /\ template_found = TRUE
          /\ pdf = "pages"
       \* no mark on the page, or no page
       \/ /\ page_marks = <<>>
          /\ ocr_engine \in {NO_OCR, None, SimpleOcr}
          /\ key_file \in KeyFiles
          /\ template_found \in BOOLEAN
          /\ pdf \in PdfStates
    /\ image = "none"
    /\ raw_bubbles = <<>>
    /\ evaluated_bubbles = <<>>
    /\ roll_cols_detected = EmptyDict
    /\ final_roll_chars = <<>>
    /\ rollNumber = <<>>
    /\ rollValidation = NoKey
    /\ ocrRollNumber = NoKey
    /\ responses = EmptyDict
    /\ answer_key = EmptyDict
    /\ max_q = 0
    /\ i = 0
    /\ correct_count = 0
    /\ wrong_count = 0
    /\ unanswered_count = 0
    /\ score_details = <<>>
    /\ summary = NoKey
    \* extract_roll_digits is not running
    /\ ocr_pc = "idle"
    /\ rn_conf = NoBlock
    /\ strip_rects = <<>>
    /\ v_lines = <<>>
    /\ pytesseract = FALSE
    /\ boxes = <<>>
    /\ idx = 0
    /\ variant = 0
    /\ found_digit = "?"
    /\ detected_res = <<>>
    /\ calls = <<>>
    /\ ocr_return = NoKey
    /\ ocr_raised = FALSE
    \* the mapper and the detector are not running
    /\ template = NoKey
    /\ detected_bubbles = <<>>
    /\ mapped_bubbles = <<>>
    /\ map_runs = 0
    /\ first_run = NoKey
    /\ det_pc = "idle"
    /\ radius = 0
    /\ contours = <<>>
    /\ final_bubbles = <<>>
    /\ resuppressed = <<>>
    \* evaluate_bubbles is not running
    /\ eval_pc = "idle"
    /\ bubble_style = EmptyDict
    /\ thresh_img = <<>>
    /\ eval_bubbles = <<>>

\* the runs of main() in which no mark is on the page, or there is no page
NoMarksInit ==
    /\ pc = "start"
    /\ page_marks = <<>>
    /\ ocr_engine \in {NO_OCR, None, SimpleOcr}
    /\ key_file \in KeyFiles
    /\ template_found \in BOOLEAN
    /\ pdf \in PdfStates
    /\ image = "none"
    /\ raw_bubbles = <<>>
    /\ evaluated_bubbles = <<>>
    /\ roll_cols_detected = EmptyDict
    /\ final_roll_chars = <<>>
    /\ rollNumber = <<>>
    /\ rollValidation = NoKey
    /\ ocrRollNumber = NoKey
    /\ responses = EmptyDict
    /\ answer_key = EmptyDict
    /\ max_q = 0
    /\ i = 0
    /\ correct_count = 0
    /\ wrong_count = 0
    /\ unanswered_count = 0
    /\ score_details = <<>>
    /\ summary = NoKey
    \* extract_roll_digits is not running
    /\ ocr_pc = "idle"
    /\ rn_conf = NoBlock
    /\ strip_rects = <<>>
    /\ v_lines = <<>>
    /\ pytesseract = FALSE
    /\ boxes = <<>>
    /\ idx = 0
    /\ variant = 0
    /\ found_digit = "?"
    /\ detected_res = <<>>
    /\ calls = <<>>
    /\ ocr_return = NoKey
    /\ ocr_raised = FALSE
    \* the mapper and the detector are not running
    /\ template = NoKey
    /\ detected_bubbles = <<>>
    /\ mapped_bubbles = <<>>
    /\ map_runs = 0
    /\ first_run = NoKey
    /\ det_pc = "idle"
    /\ radius = 0
    /\ contours = <<>>
    /\ final_bubbles = <<>>
    /\ resuppressed = <<>>
    \* evaluate_bubbles is not running
    /\ eval_pc = "idle"
    /\ bubble_style = EmptyDict
    /\ thresh_img = <<>>
    /\ eval_bubbles = <<>>

MainNext ==
    \/ LoadImage
    \/ RunPipeline
    \/ ProcessRoll
    \/ OcrValidation
    \/ ProcessResponses
    \/ LoadAnswerKey
    \/ ScoreStep
    \/ Summarize

----------------------------------------------------------------------------
(* generate_key(), src/generate_key.py, followed by main() on the same sheet *)

\* the last of several filled options goes into the key
KeyAnswersLastOfMany(evaluated) ==
    LET q_groups == QGroups(evaluated, EmptyDict)
        keyed == {q \in DOMAIN q_groups : Len(q_groups[q]) >= 1}
    IN  [q \in keyed |-> q_groups[q][Len(q_groups[q])]]

\* lines 46-66: the filled options by question, the first of each in the key
KeyAnswers(evaluated) ==
    LET q_groups == QGroups(evaluated, EmptyDict)
        keyed == {q \in DOMAIN q_groups : Len(q_groups[q]) >= 1}
    IN  [q \in keyed |-> q_groups[q][1]]

\* lines 8-35: no layout, no document, no image or no candidate: nothing is written
KeyWritten == template_found /\ pdf = "pages" /\ Len(page_marks) > 0

\* lines 7-79; json.dump and json.load keep a dict of strings as it is
GenerateKey ==
    /\ UNCHANGED notMain
    /\ pc = "genkey"
    /\ key_file' = IF KeyWritten
                   THEN [exists |-> TRUE, answers |-> KeyAnswers(page_marks)]
                   ELSE key_file
    /\ pc' = "start"
    /\ UNCHANGED <<template_found, pdf, page_marks, image, raw_bubbles,
                   evaluated_bubbles, ocr_engine, roll_cols_detected,
                   final_roll_chars, rollNumber, rollValidation, ocrRollNumber,
                   responses, answer_key, max_q, i, correct_count, wrong_count,
                   unanswered_count, score_details, summary>>

\* the sheets the key is generated from and that are scored afterwards; no
\* answer_key.json exists before
RoundTripInit ==
    /\ pc = "genkey"
    /\ \/ page_marks = <<>>
       \/ \E cfg \in QuestionCfgs : page_marks = Sheet(SimpleFill, cfg)
    /\ ocr_engine = SimpleOcr
    /\ key_file = [exists |-> FALSE, answers |-> EmptyDict]
    /\ template_found \in BOOLEAN
    /\ pdf \in PdfStates
    /\ image = "none"
    /\ raw_bubbles = <<>>
    /\ evaluated_bubbles = <<>>
    /\ roll_cols_detected = EmptyDict
    /\ final_roll_chars = <<>>
    /\ rollNumber = <<>>
    /\ rollValidation = NoKey
    /\ ocrRollNumber = NoKey
    /\ responses = EmptyDict
    /\ answer_key = EmptyDict
    /\ max_q = 0
    /\ i = 0
    /\ correct_count = 0
    /\ wrong_count = 0
    /\ unanswered_count = 0
    /\ score_details = <<>>
    /\ summary = NoKey
    \* extract_roll_digits is not running
    /\ ocr_pc = "idle"
    /\ rn_conf = NoBlock
    /\ strip_rects = <<>>
    /\ v_lines = <<>>
    /\ pytesseract = FALSE
    /\ boxes = <<>>
    /\ idx = 0
    /\ variant = 0
    /\ found_digit = "?"
    /\ detected_res = <<>>
    /\ calls = <<>>
    /\ ocr_return = NoKey
    /\ ocr_raised = FALSE
    \* the mapper and the detector are not running
    /\ template = NoKey
    /\ detected_bubbles = <<>>
    /\ mapped_bubbles = <<>>
    /\ map_runs = 0
    /\ first_run = NoKey
    /\ det_pc = "idle"
    /\ radius = 0
    /\ contours = <<>>
    /\ final_bubbles = <<>>
    /\ resuppressed = <<>>
    \* evaluate_bubbles is not running
    /\ eval_pc = "idle"
    /\ bubble_style = EmptyDict
    /\ thresh_img = <<>>
    /\ eval_bubbles = <<>>

RoundTripNext ==
    \/ GenerateKey
    \/ LoadImage
    \/ RunPipeline
    \/ ProcessRoll
    \/ OcrValidation
    \/ ProcessResponses
    \/ LoadAnswerKey
    \/ ScoreStep
    \/ Summarize

----------------------------------------------------------------------------
(* OMRProcessor.extract_roll_digits, src/omr_processor.py: the recognition calls *)

\* what a recognition call does: it raises, or returns a text
RAISE == <<"<raise>">>
\* texts of the digit-only mode (lines 824) and of the unconstrained mode (836)
DigitTexts == {<<>>, <<"\n">>, <<"7", "\n">>, <<"1", "2", "\n">>, <<"4", " ", "1">>}
RawTexts == {<<>>, <<"S", "\n">>, <<"x">>, <<"x", "A">>, <<"$", ".">>, <<"7">>}

IsSpace(c) == c \in {" ", "\n", "\t", "\f"}
\* txt.strip()
RECURSIVE LStrip(_)
LStrip(s) == IF Len(s) > 0 /\ IsSpace(s[1]) THEN LStrip(Tail(s)) ELSE s
RECURSIVE RStrip(_)
RStrip(s) ==
    IF Len(s) > 0 /\ IsSpace(s[Len(s)]) THEN RStrip(SubSeq(s, 1, Len(s) - 1)) ELSE s
Strip(s) == RStrip(LStrip(s))

\* c.isdigit()
IsDigitStr(c) == Len(c) > 0 /\ \A k \in 1..Len(c) : IsDigitChar(c[k])

\* the loop with the thinned variant first and the thickened one last
VariantsDilatedFirst == <<"dilated", "original", "eroded">>

\* line 822: the variants in the order the loop tries them
Variants == <<"eroded", "original", "dilated">>

\* lines 838-847
Corrections ==
    [c \in {"|", "I", "l", "!", "]", "A", "H", "b", "G", "g", "q", "S", "s", "$",
            "Z", "z", "B", "O", "D"} |->
        CASE c \in {"|", "I", "l", "!", "]"} -> "1"
          [] c \in {"A", "H"} -> "4"
          [] c \in {"b", "G"} -> "6"
          [] c \in {"g", "q"} -> "9"
          [] c \in {"S", "s", "$"} -> "5"
          [] c \in {"Z", "z"} -> "2"
          [] c = "B" -> "8"
          [] OTHER -> "0"]

\* a digit-only text gives a digit only if it is one character long
DigitOfSingleChar(txt) ==
    LET c == Strip(txt)
    IN  IF Len(c) = 1 /\ IsDigitChar(c[1]) THEN c[1] ELSE "?"

\* lines 825-828: the digit a digit-only text gives, or "?"
DigitOf(txt) ==
    LET c == Strip(txt)
    IN  IF Len(c) > 0 /\ IsDigitStr(c) THEN c[1] ELSE "?"

\* the unconstrained text gives a digit only if it is an entry of the table
CorrectedDigitDirectOnly(txt) ==
    LET raw_txt == Strip(txt)
    IN  IF Len(raw_txt) = 1 /\ raw_txt[1] \in DOMAIN Corrections
        THEN Corrections[raw_txt[1]]
        ELSE "?"

\* lines 849-859: the digit the unconstrained text gives, or "?"
CorrectedDigit(txt) ==
    LET raw_txt == Strip(txt)
    IN  IF Len(raw_txt) = 1 /\ raw_txt[1] \in DOMAIN Corrections
        THEN Corrections[raw_txt[1]]
        ELSE IF Len(raw_txt) > 0
        THEN IF Contains(raw_txt, <<"A">>) THEN "4"
             ELSE IF raw_txt[1] \in DOMAIN Corrections THEN Corrections[raw_txt[1]]
             ELSE "?"
        ELSE "?"

\* lines 829-830 and 860-861: what an exception of the engine does
PassOnError == "continue"
FallbackPropagates == "raise"
FallbackOnError == "pass"

\* line 741
pad_x == 4
\* line 751: cell_roi.size == 0 (boxes lie inside the image)
RoiEmpty(box) == box.bh <= 0 \/ box.bw - 2 * pad_x <= 0

----------------------------------------------------------------------------
(* OMRProcessor._get_roll_roi_boxes, src/omr_processor.py *)

DEFAULT_DIGITS_GAP == 48
MIN_STRIP_W == 200
MIN_STRIP_H == 20
LINE_GROUP_GAP == 10
MIN_INTERVALS == 4

Rect(x, y, w, h) == [x |-> x, y |-> y, w |-> w, h |-> h]
\* best_strip = None
NoStrip == Rect(0, 0, 0, 0)
Box(bx, by, bw, bh) == [bx |-> bx, by |-> by, bw |-> bw, bh |-> bh]

RECURSIVE SumSeq(_)
SumSeq(xs) == IF Len(xs) = 0 THEN 0 ELSE xs[1] + SumSeq(Tail(xs))
\* sorted(xs) for a list of integers
SortedList(xs) ==
    LET order == SortByKey([k \in 1..Len(xs) |-> k], xs)
    IN  [k \in 1..Len(xs) |-> xs[order[k]]]

\* lines 527-539: the largest contour that is wide and tall enough, or None
RECURSIVE BestStripFrom(_, _, _, _)
BestStripFrom(rects, k, best_strip, max_area) ==
    IF k > Len(rects) THEN best_strip
    ELSE IF rects[k].w < MIN_STRIP_W \/ rects[k].h < MIN_STRIP_H
    THEN BestStripFrom(rects, k + 1, best_strip, max_area)
    ELSE IF rects[k].w * rects[k].h > max_area
    THEN BestStripFrom(rects, k + 1, rects[k], rects[k].w * rects[k].h)
    ELSE BestStripFrom(rects, k + 1, best_strip, max_area)
BestStrip(rects) == BestStripFrom(rects, 1, NoStrip, 0)

\* lines 564-571: the x of the lines at least half as tall as the strip, sorted
LineXs(lines, sh) ==
    LET tall == SelectSeq(lines, LAMBDA c : 2 * c.h > sh)
    IN  SortedList([k \in 1..Len(tall) |-> tall[k].x])

\* lines 575-585: lines less than 10 px apart are one separator, at their mean
RECURSIVE GroupLinesFrom(_, _, _, _)
GroupLinesFrom(line_xs, k, curr_group, final_lines) ==
    IF k > Len(line_xs)
    THEN Append(final_lines, SumSeq(curr_group) \div Len(curr_group))
    ELSE IF line_xs[k] - curr_group[Len(curr_group)] < LINE_GROUP_GAP
    THEN GroupLinesFrom(line_xs, k + 1, Append(curr_group, line_xs[k]), final_lines)
    ELSE GroupLinesFrom(line_xs, k + 1, <<line_xs[k]>>,
                        Append(final_lines, SumSeq(curr_group) \div Len(curr_group)))
FinalLines(line_xs) ==
    IF Len(line_xs) = 0 THEN <<>> ELSE GroupLinesFrom(line_xs, 2, <<line_xs[1]>>, <<>>)

\* lines 593-599: the widths between 40 and 80 of consecutive separators
ValidIntervals(final_lines) ==
    LET widths == [k \in 1..(Len(final_lines) - 1) |->
                      final_lines[k + 1] - final_lines[k]]
    IN  SelectSeq(widths, LAMBDA width : 40 < width /\ width < 80)

\* lines 602-607: the median of at least four intervals, or 0 for None
CalculatedCellW(valid_intervals) ==
    IF Len(valid_intervals) >= MIN_INTERVALS
    THEN SortedList(valid_intervals)[(Len(valid_intervals) \div 2) + 1]
    ELSE 0

\* a grid with one box per separator line instead of one per digit
GridBoxesPerLine(start_x, by, cell_w, bh, digits_count) ==
    [k \in 1..(digits_count + 1) |-> Box(start_x + (k - 1) * cell_w, by, cell_w, bh)]

\* lines 620-625, 636-641 and 652-657: one box per digit, left to right
GridBoxes(start_x, by, cell_w, bh, digits_count) ==
    [k \in 1..digits_count |-> Box(start_x + (k - 1) * cell_w, by, cell_w, bh)]

\* lines 487-659
GetRollRoiBoxes(rn, rects, lines) ==
    IF ~rn.present THEN <<>>
    ELSE LET origin == rn.conf.origin
             digits_count == rn.conf.digits
             digits_gap == Get(rn.conf, "digitsGap", DEFAULT_DIGITS_GAP)
             s_cx == origin[1] + (digits_count * digits_gap) \div 2
             s_w == (digits_count * digits_gap) + 150
             search_x1 == Max(0, (2 * s_cx - s_w) \div 2)
             search_y1 == Max(0, origin[2] - 200)
             best_strip == BestStrip(rects)
         IN  IF best_strip # NoStrip
             THEN LET strip_x == search_x1 + best_strip.x
                      strip_y == search_y1 + best_strip.y
                      cell_w == CalculatedCellW(ValidIntervals(
                                    FinalLines(LineXs(lines, best_strip.h))))
                  IN  IF cell_w # 0
                      THEN GridBoxes(strip_x + (best_strip.w - digits_count * cell_w) \div 2,
                                     strip_y, cell_w, best_strip.h, digits_count)
                      ELSE GridBoxes(origin[1] - 68, strip_y, digits_gap,
                                     best_strip.h, digits_count)
             ELSE GridBoxes(origin[1] - 68, origin[2] - 35 - 60, digits_gap, 60,
                            digits_count)

\* the rollNumber sections of the layouts: none, one digit, MaxCells digits,
\* and cells too narrow for their padding
RollConfs == <<
    NoBlock,
    HeaderBlock([origin |-> <<468, 320>>, digits |-> 1]),
    HeaderBlock([origin |-> <<468, 320>>, digits |-> MaxCells]),
    HeaderBlock([origin |-> <<468, 320>>, digits |-> MaxCells, digitsGap |-> 8]) >>

\* the images: the contours of the search region and the lines of the strip
\* (no contour; a contour too narrow; a strip without lines; a strip with six
\* separators 52 px apart; a strip with double borders and a short line; a
\* strip with separators 30 px apart and a smaller second contour)
RollImages == <<
    [rects |-> <<>>, lines |-> <<>>],
    [rects |-> <<Rect(10, 100, 150, 40)>>, lines |-> <<>>],
    [rects |-> <<Rect(10, 100, 300, 50)>>, lines |-> <<>>],
    [rects |-> <<Rect(10, 100, 300, 50)>>,
     lines |-> <<Rect(260, 0, 2, 50), Rect(0, 0, 2, 50), Rect(52, 0, 2, 50),
                 Rect(104, 0, 2, 50), Rect(156, 0, 2, 50), Rect(208, 0, 2, 50)>>],
    [rects |-> <<Rect(10, 100, 300, 50)>>,
     lines |-> <<Rect(0, 0, 2, 50), Rect(4, 0, 2, 50), Rect(56, 0, 2, 50),
                 Rect(60, 0, 2, 50), Rect(112, 0, 2, 50), Rect(130, 0, 2, 20),
                 Rect(168, 0, 2, 50), Rect(224, 0, 2, 50)>>],
    [rects |-> <<Rect(40, 90, 200, 20), Rect(10, 100, 300, 50)>>,
     lines |-> <<Rect(0, 0, 2, 50), Rect(30, 0, 2, 50), Rect(60, 0, 2, 50),
                 Rect(90, 0, 2, 50), Rect(120, 0, 2, 50)>>] >>

\* the layouts and images extract_roll_digits is run on: every image under the
\* one-digit layout, and the other layouts on an image without strip, on a
\* strip with separators and on a strip without
OcrSheets ==
    ({2} \X (1..Len(RollImages))) \cup {<<1, 1>>, <<3, 1>>, <<3, 4>>, <<4, 3>>}

OcrInit ==
    /\ ocr_pc = "start"
    /\ pytesseract \in BOOLEAN
    /\ \E c \in 1..Len(RollConfs), m \in 1..Len(RollImages) :
          /\ <<c, m>> \in OcrSheets
          /\ rn_conf = RollConfs[c]
          /\ strip_rects = RollImages[m].rects
          /\ v_lines = RollImages[m].lines
    /\ boxes = <<>>
    /\ idx = 0
    /\ variant = 0
    /\ found_digit = "?"
    /\ detected_res = <<>>
    /\ calls = <<>>
    /\ ocr_return = NoKey
    /\ ocr_raised = FALSE
    \* main() is not running
    /\ pc = "idle"
    /\ template_found = FALSE
    /\ pdf = "none"
    /\ page_marks = <<>>
    /\ image = "none"
    /\ raw_bubbles = <<>>
    /\ evaluated_bubbles = <<>>
    /\ ocr_engine = None
    /\ key_file = [exists |-> FALSE, answers |-> EmptyDict]
    /\ roll_cols_detected = EmptyDict
    /\ final_roll_chars = <<>>
    /\ rollNumber = <<>>
    /\ rollValidation = NoKey
    /\ ocrRollNumber = NoKey
    /\ responses = EmptyDict
    /\ answer_key = EmptyDict
    /\ max_q = 0
    /\ i = 0
    /\ correct_count = 0
    /\ wrong_count = 0
    /\ unanswered_count = 0
    /\ score_details = <<>>
    /\ summary = NoKey
    \* the mapper and the detector are not running
    /\ template = NoKey
    /\ detected_bubbles = <<>>
    /\ mapped_bubbles = <<>>
    /\ map_runs = 0
    /\ first_run = NoKey
    /\ det_pc = "idle"
    /\ radius = 0
    /\ contours = <<>>
    /\ final_bubbles = <<>>
    /\ resuppressed = <<>>
    \* evaluate_bubbles is not running
    /\ eval_pc = "idle"
    /\ bubble_style = EmptyDict
    /\ thresh_img = <<>>
    /\ eval_bubbles = <<>>

\* lines 713-717
OcrStart ==
    /\ UNCHANGED notOcr
    /\ UNCHANGED ocrIn
    /\ ocr_pc = "start"
    /\ IF ~pytesseract
       THEN ocr_return' = NO_OCR /\ ocr_pc' = "done" /\ boxes' = boxes
       ELSE /\ boxes' = GetRollRoiBoxes(rn_conf, strip_rects, v_lines)
            /\ IF Len(boxes') = 0
               THEN ocr_return' = None /\ ocr_pc' = "done"
               ELSE ocr_return' = ocr_return /\ ocr_pc' = "cell"
    /\ UNCHANGED <<pytesseract, idx, variant, found_digit, detected_res,
                   calls, ocr_raised>>

\* lines 739-821: the next cell; an empty crop gives "?" at once
OcrCell ==
    /\ UNCHANGED notOcr
    /\ UNCHANGED ocrIn
    /\ ocr_pc = "cell"
    /\ idx < Len(boxes)
    /\ IF RoiEmpty(boxes[idx + 1])
       THEN /\ detected_res' = Append(detected_res, "?")
            /\ idx' = idx + 1
            /\ UNCHANGED <<ocr_pc, variant, found_digit, calls>>
       ELSE /\ found_digit' = "?"
            /\ variant' = 1
            /\ calls' = <<>>
            /\ ocr_pc' = "pass"
            /\ UNCHANGED <<idx, detected_res>>
    /\ UNCHANGED <<pytesseract, boxes, ocr_return, ocr_raised>>

\* where the digit-only loop goes after a pass that gave no digit
AfterFailedPass == IF variant < Len(Variants) THEN "pass" ELSE "fallback"

\* lines 822-830: one digit-only recognition call
OcrPass ==
    /\ UNCHANGED notOcr
    /\ UNCHANGED ocrIn
    /\ ocr_pc = "pass"
    /\ \E out \in {RAISE} \cup DigitTexts :
          /\ calls' = Append(calls, [variant |-> Variants[variant],
                                     mode |-> "digits", out |-> out])
          /\ IF out = RAISE
             THEN IF PassOnError = "continue"
                  THEN /\ ocr_pc' = AfterFailedPass
                       /\ variant' = variant + 1
                       /\ UNCHANGED <<found_digit, ocr_raised>>
                  ELSE /\ ocr_raised' = TRUE
                       /\ ocr_pc' = "raised"
                       /\ UNCHANGED <<found_digit, variant>>
             ELSE IF DigitOf(out) # "?"
             THEN /\ found_digit' = DigitOf(out)
                  /\ ocr_pc' = "append"
                  /\ UNCHANGED <<variant, ocr_raised>>
             ELSE /\ ocr_pc' = AfterFailedPass
                  /\ variant' = variant + 1
                  /\ UNCHANGED <<found_digit, ocr_raised>>
    /\ UNCHANGED <<pytesseract, boxes, idx, detected_res, ocr_return>>

\* lines 832-861: the unconstrained call on the unmodified image
OcrFallback ==
    /\ UNCHANGED notOcr
    /\ UNCHANGED ocrIn
    /\ ocr_pc = "fallback"
    /\ \E out \in {RAISE} \cup RawTexts :
          /\ calls' = Append(calls, [variant |-> "original", mode |-> "raw",
                                     out |-> out])
          /\ IF out = RAISE
             THEN IF FallbackOnError = "pass"
                  THEN /\ ocr_pc' = "append"
                       /\ UNCHANGED <<found_digit, ocr_raised>>
                  ELSE /\ ocr_raised' = TRUE
                       /\ ocr_pc' = "raised"
                       /\ UNCHANGED found_digit
             ELSE /\ found_digit' = CorrectedDigit(out)
                  /\ ocr_pc' = "append"
                  /\ UNCHANGED ocr_raised
    /\ UNCHANGED <<pytesseract, boxes, idx, variant, detected_res, ocr_return>>

\* line 863
OcrAppend ==
    /\ UNCHANGED notOcr
    /\ UNCHANGED ocrIn
    /\ ocr_pc = "append"
    /\ detected_res' = Append(detected_res, found_digit)
    /\ idx' = idx + 1
    /\ ocr_pc' = "cell"
    /\ UNCHANGED <<pytesseract, boxes, variant, found_digit, calls, ocr_return,
                   ocr_raised>>

\* line 866
OcrReturn ==
    /\ UNCHANGED notOcr
    /\ UNCHANGED ocrIn
    /\ ocr_pc = "cell"
    /\ idx >= Len(boxes)
    /\ ocr_return' = Join(detected_res)
    /\ ocr_pc' = "done"
    /\ UNCHANGED <<pytesseract, boxes, idx, variant, found_digit, detected_res,
                   calls, ocr_raised>>

OcrNext ==
    \/ OcrStart
    \/ OcrCell
    \/ OcrPass
    \/ OcrFallback
    \/ OcrAppend
    \/ OcrReturn

----------------------------------------------------------------------------
(* OMRProcessor.map_bubbles_to_structure, src/omr_processor.py *)

HEADER_Y_LIMIT == 900
HEADER_X_SPLIT == 1100
ROLL_COL_GAP == 30
QUESTION_COL_GAP == 60
ROW_GAP == 25
MIN_QUESTION_BUBBLES == 20
DEFAULT_ROWS == 10
DEFAULT_DIGITS == 9
DEFAULT_OPTIONS_COUNT == 4

\* line 345
options_list == <<"A", "B", "C", "D", "E">>
\* str(n) as a label or option value (n < 10: one character)
StrVal(n) == Digits[n + 1]

\* a field a dict does not have (yet)
Absent == "<absent>"
Candidate(x, y) ==
    [x |-> x, y |-> y, id |-> NoKey, group |-> NoKey, value |-> Absent,
     question |-> NoQuestion]

Indices(list) == [k \in 1..Len(list) |-> k]
KeyX(bubbles) == [k \in 1..Len(bubbles) |-> bubbles[k].x]
KeyY(bubbles) == [k \in 1..Len(bubbles) |-> bubbles[k].y]

\* lines 241-242
HeaderPool(bubbles) ==
    SelectSeq(Indices(bubbles), LAMBDA k : bubbles[k].y < HEADER_Y_LIMIT)

\* QuestionPool leaving out the candidates that already carry an identity
QuestionPoolUnmappedOnly(bubbles) ==
    SelectSeq(Indices(bubbles),
              LAMBDA k : bubbles[k].y >= HEADER_Y_LIMIT /\ bubbles[k].id = NoKey)

QuestionPool(bubbles) ==
    SelectSeq(Indices(bubbles), LAMBDA k : bubbles[k].y >= HEADER_Y_LIMIT)

\* lines 259-268 and 360-369: consecutive elements of a sorted list are cut into
\* clusters wherever the key grows by more than gap
RECURSIVE ClusterFrom(_, _, _, _, _, _)
ClusterFrom(list, k, cur, done, key, gap) ==
    IF k > Len(list) THEN Append(done, cur)
    ELSE IF key[list[k]] - key[list[k - 1]] > gap
         THEN ClusterFrom(list, k + 1, <<list[k]>>, Append(done, cur), key, gap)
         ELSE ClusterFrom(list, k + 1, Append(cur, list[k]), done, key, gap)
Cluster(list, key, gap) ==
    IF Len(list) = 0 THEN <<>> ELSE ClusterFrom(list, 2, <<list[1]>>, <<>>, key, gap)

\* line 277
RollLabel(labels, r_idx) ==
    IF r_idx < Len(labels) THEN labels[r_idx + 1] ELSE StrVal(r_idx)

\* lines 274-281: the marks of one identification column
RollColumn(bubbles, col_bubbles, d_idx, rows, labels) ==
    LET col == SortByKey(col_bubbles, KeyY(bubbles))
    IN  [r \in 1..Min(Len(col), rows) |->
            LET lbl == RollLabel(labels, r - 1)
            IN  [k |-> col[r], id |-> RollId(d_idx, lbl), group |-> RollGroup,
                 value |-> lbl, question |-> NoQuestion]]

RECURSIVE RollColumns(_, _, _, _, _, _)
RollColumns(bubbles, cols, d_idx, digits, rows, labels) ==
    IF d_idx >= Len(cols) \/ d_idx >= digits THEN <<>>
    ELSE RollColumn(bubbles, cols[d_idx + 1], d_idx, rows, labels)
             \o RollColumns(bubbles, cols, d_idx + 1, digits, rows, labels)

\* lines 246-281
MapRollNumber(bubbles, header_blocks) ==
    IF ~header_blocks.rollNumber.present THEN <<>>
    ELSE LET conf == header_blocks.rollNumber.conf
             rows == Get(conf, "rows", DEFAULT_ROWS)
             digits == Get(conf, "digits", DEFAULT_DIGITS)
             labels == Get(conf, "labels", [r \in 1..rows |-> StrVal(r - 1)])
             roll_candidates ==
                 SortByKey(SelectSeq(HeaderPool(bubbles),
                                     LAMBDA k : bubbles[k].x < HEADER_X_SPLIT),
                           KeyX(bubbles))
             cols == Cluster(roll_candidates, KeyX(bubbles), ROLL_COL_GAP)
         IN  RollColumns(bubbles, cols, 0, digits, rows, labels)

\* lines 283-298
MapBooklet(bubbles, header_blocks) ==
    IF ~header_blocks.testBookletCode.present THEN <<>>
    ELSE LET options == Get(header_blocks.testBookletCode.conf, "options", <<>>)
             booklet_candidates ==
                 SortByKey(SelectSeq(HeaderPool(bubbles),
                                     LAMBDA k : bubbles[k].x > HEADER_X_SPLIT),
                           KeyX(bubbles))
         IN  [j \in 1..Min(Len(booklet_candidates), Len(options)) |->
                 [k |-> booklet_candidates[j], id |-> BookletId(options[j]),
                  group |-> BookletGroup, value |-> options[j],
                  question |-> NoQuestion]]

\* lines 310-325: the indices at which a new column group starts
SplitIndices(q_pool, key) ==
    SelectSeq([j \in 1..(Len(q_pool) - 1) |-> j],
              LAMBDA j : key[q_pool[j + 1]] - key[q_pool[j]] > QUESTION_COL_GAP)

\* lines 330-335: q_pool[start_idx:split_idx] for every split, and the rest
QuestionCols(q_pool, split_indices) ==
    [c \in 1..(Len(split_indices) + 1) |->
        SubSeq(q_pool,
               IF c = 1 THEN 1 ELSE split_indices[c - 1] + 1,
               IF c > Len(split_indices) THEN Len(q_pool) ELSE split_indices[c])]

\* line 383
OptVal(c_idx) ==
    IF c_idx < Len(options_list) THEN options_list[c_idx + 1] ELSE StrVal(c_idx)

\* the numbering that runs down one column group before the next
QNumColumnMajor(r_idx, total_cols_in_layout, block_idx) ==
    (block_idx * total_cols_in_layout) + (r_idx + 1)

\* line 379
QNum(r_idx, total_cols_in_layout, block_idx) ==
    (r_idx * total_cols_in_layout) + (block_idx + 1)

\* lines 375-388: the marks of one row
QuestionRow(bubbles, row, q_num, name, opts) ==
    LET row_bubbles == SortByKey(row, KeyX(bubbles))
    IN  [c \in 1..Min(Len(row_bubbles), opts) |->
            [k |-> row_bubbles[c], id |-> QuestionId(q_num, OptVal(c - 1)),
             group |-> name, value |-> OptVal(c - 1), question |-> q_num]]

RECURSIVE QuestionRows(_, _, _, _, _, _, _)
QuestionRows(bubbles, grid_rows, r_idx, num_detected_cols, block_idx, name, opts) ==
    IF r_idx >= Len(grid_rows) THEN <<>>
    ELSE QuestionRow(bubbles, grid_rows[r_idx + 1],
                     QNum(r_idx, num_detected_cols, block_idx), name, opts)
             \o QuestionRows(bubbles, grid_rows, r_idx + 1, num_detected_cols,
                             block_idx, name, opts)

\* lines 347-388: the template blocks, left to right, each with its column group
RECURSIVE QuestionBlocks(_, _, _, _, _)
QuestionBlocks(bubbles, question_cols, blocks, block_idx, def_opts) ==
    IF block_idx >= Len(blocks) THEN <<>>
    ELSE LET rest == QuestionBlocks(bubbles, question_cols, blocks, block_idx + 1,
                                    def_opts)
         IN  IF block_idx >= Len(question_cols) THEN rest
             ELSE LET col_cluster == SortByKey(question_cols[block_idx + 1],
                                               KeyY(bubbles))
                      opts == Get(blocks[block_idx + 1].conf, "optionsCount", def_opts)
                      grid_rows == Cluster(col_cluster, KeyY(bubbles), ROW_GAP)
                  IN  QuestionRows(bubbles, grid_rows, 0, Len(question_cols),
                                   block_idx, blocks[block_idx + 1].name, opts)
                          \o rest

\* the items of fieldBlocks in the order of the layout file
TemplateBlocksAsListed(field_blocks) == field_blocks

\* line 340: the items of fieldBlocks sorted by origin[0]
SortedTemplateBlocks(field_blocks) ==
    LET order == SortByKey(Indices(field_blocks),
                           [j \in 1..Len(field_blocks) |-> field_blocks[j].origin[1]])
    IN  [j \in 1..Len(field_blocks) |-> field_blocks[order[j]]]

\* the question step without the test of the number of marks
MapQuestionsAnyCount(bubbles, tpl) ==
    LET q_pool == SortByKey(QuestionPool(bubbles), KeyX(bubbles))
        question_cols == QuestionCols(q_pool, SplitIndices(q_pool, KeyX(bubbles)))
    IN  IF Len(q_pool) = 0 THEN <<>>
        ELSE QuestionBlocks(bubbles, question_cols,
                            SortedTemplateBlocks(tpl.fieldBlocks), 0,
                            Get(tpl.fieldDefaults, "optionsCount",
                                DEFAULT_OPTIONS_COUNT))

\* lines 300-388
MapQuestions(bubbles, tpl) ==
    LET q_pool == SortByKey(QuestionPool(bubbles), KeyX(bubbles))
    IN  IF Len(q_pool) < MIN_QUESTION_BUBBLES THEN <<>>
        ELSE LET split_indices == SplitIndices(q_pool, KeyX(bubbles))
                 question_cols == QuestionCols(q_pool, split_indices)
                 def_opts == Get(tpl.fieldDefaults, "optionsCount",
                                 DEFAULT_OPTIONS_COUNT)
             IN  QuestionBlocks(bubbles, question_cols,
                                SortedTemplateBlocks(tpl.fieldBlocks), 0, def_opts)

\* lines 225-390: the candidates as annotated, and the list returned
MapBubblesToStructure(bubbles, tpl) ==
    LET assigned == MapRollNumber(bubbles, tpl.headerBlocks)
                        \o MapBooklet(bubbles, tpl.headerBlocks)
                        \o MapQuestions(bubbles, tpl)
        At(k) == CHOOSE j \in 1..Len(assigned) : assigned[j].k = k
    IN  [mapped |-> [j \in 1..Len(assigned) |-> assigned[j].k],
         bubbles |-> [k \in 1..Len(bubbles) |->
             IF \E j \in 1..Len(assigned) : assigned[j].k = k
             THEN [x |-> bubbles[k].x, y |-> bubbles[k].y,
                   id |-> assigned[At(k)].id, group |-> assigned[At(k)].group,
                   value |-> assigned[At(k)].value,
                   question |-> IF assigned[At(k)].question = NoQuestion
                                THEN bubbles[k].question
                                ELSE assigned[At(k)].question]
             ELSE bubbles[k]]]

----------------------------------------------------------------------------
(* map_bubbles_to_structure: the layouts and candidate lists it is run on *)

Col1 == <<"c", "o", "l", "1">>
Col2 == <<"c", "o", "l", "2">>
Col3 == <<"c", "o", "l", "3">>
Block1 == <<"B", "l", "o", "c", "k", "1">>
FieldBlock(name, origin, conf) == [name |-> name, origin |-> origin, conf |-> conf]

\* the layout descriptors (template JSON files)
Templates == <<
    \* the labels defaulted, two columns of four options
    [headerBlocks |-> [rollNumber |-> HeaderBlock([rows |-> 3, digits |-> 2]),
                       testBookletCode |-> HeaderBlock([options |-> <<"A", "B">>])],
     fieldBlocks |-> <<FieldBlock(Col1, <<200, 1000>>, [optionsCount |-> 4]),
                       FieldBlock(Col2, <<600, 1000>>, EmptyDict)>>,
     fieldDefaults |-> [optionsCount |-> 4]],
    \* fewer labels than rows, the blocks listed right to left, three options
    [headerBlocks |-> [rollNumber |-> HeaderBlock([rows |-> 3, digits |-> 2,
                                                   labels |-> <<"1", "2">>]),
                       testBookletCode |-> NoBlock],
     fieldBlocks |-> <<FieldBlock(Col2, <<600, 1000>>, [optionsCount |-> 3]),
                       FieldBlock(Col1, <<200, 1000>>, [optionsCount |-> 3])>>,
     fieldDefaults |-> EmptyDict],
    \* no identification block, one question block
    [headerBlocks |-> [rollNumber |-> NoBlock,
                       testBookletCode |-> HeaderBlock([options |-> <<"A">>])],
     fieldBlocks |-> <<FieldBlock(Block1, <<200, 1000>>, EmptyDict)>>,
     fieldDefaults |-> [optionsCount |-> 5]],
    \* one identification digit, three question blocks
    [headerBlocks |-> [rollNumber |-> HeaderBlock([digits |-> 1]),
                       testBookletCode |-> HeaderBlock([options |-> <<"A", "B", "C">>])],
     fieldBlocks |-> <<FieldBlock(Col1, <<200, 1000>>, EmptyDict),
                       FieldBlock(Col2, <<600, 1000>>, EmptyDict),
                       FieldBlock(Col3, <<1000, 1000>>, EmptyDict)>>,
     fieldDefaults |-> EmptyDict] >>

\* the printed grid: question columns 400 px apart, options 40 px, rows 50 px
QuestionGrid(ncols, nrows) ==
    [j \in 1..(ncols * nrows * 4) |->
        LET o == (j - 1) % 4
            c == ((j - 1) \div 4) % ncols
            r == (j - 1) \div (4 * ncols)
        IN  <<200 + 400 * c + 40 * o, 1000 + 50 * r>>]
\* two identification columns 48 px apart with three rows 40 px apart
RollGrid == [j \in 1..6 |-> <<300 + 48 * ((j - 1) % 2), 400 + 40 * ((j - 1) \div 2)>>]
BookletRow == <<<<1200, 400>>, <<1240, 400>>>>
\* question columns and rows of the sheets
GridShapes == {<<2, 3>>, <<2, 2>>, <<1, 5>>, <<3, 2>>}
\* printed marks that the detector may miss
Droppable == {<<300, 400>>, <<1200, 400>>, <<200, 1000>>, <<600, 1050>>}
\* a mark detected where none is printed: under the first option code, next to
\* the first identification column, on the line between identification and
\* option code, between two question columns
Strays == {<<>>, <<<<1200, 450>>>>, <<<<310, 520>>>>, <<<<1100, 400>>>>,
           <<<<440, 1000>>>>}
Reverse(list) == [j \in 1..Len(list) |-> list[Len(list) + 1 - j]]
Detected(shape, drop, stray, reversed) ==
    LET printed == RollGrid \o BookletRow \o QuestionGrid(shape[1], shape[2])
        found == SelectSeq(printed, LAMBDA p : p \notin drop) \o stray
        listed == IF reversed THEN Reverse(found) ELSE found
    IN  [j \in 1..Len(listed) |-> Candidate(listed[j][1], listed[j][2])]

MapInit ==
    /\ \E t \in 1..Len(Templates) : template = Templates[t]
    /\ \E shape \in GridShapes, drop \in SUBSET Droppable, stray \in Strays,
          reversed \in BOOLEAN :
            /\ Cardinality(drop) <= MaxDrop
            /\ detected_bubbles = Detected(shape, drop, stray, reversed)
    /\ mapped_bubbles = <<>>
    /\ map_runs = 0
    /\ first_run = NoKey
    \* main(), extract_roll_digits and the detector are not running
    /\ pc = "idle"
    /\ template_found = FALSE
    /\ pdf = "none"
    /\ page_marks = <<>>
    /\ image = "none"
    /\ raw_bubbles = <<>>
    /\ evaluated_bubbles = <<>>
    /\ ocr_engine = None
    /\ key_file = [exists |-> FALSE, answers |-> EmptyDict]
    /\ roll_cols_detected = EmptyDict
    /\ final_roll_chars = <<>>
    /\ rollNumber = <<>>
    /\ rollValidation = NoKey
    /\ ocrRollNumber = NoKey
    /\ responses = EmptyDict
    /\ answer_key = EmptyDict
    /\ max_q = 0
    /\ i = 0
    /\ correct_count = 0
    /\ wrong_count = 0
    /\ unanswered_count = 0
    /\ score_details = <<>>
    /\ summary = NoKey
    /\ ocr_pc = "idle"
    /\ rn_conf = NoBlock
    /\ strip_rects = <<>>
    /\ v_lines = <<>>
    /\ pytesseract = FALSE
    /\ boxes = <<>>
    /\ idx = 0
    /\ variant = 0
    /\ found_digit = "?"
    /\ detected_res = <<>>
    /\ calls = <<>>
    /\ ocr_return = NoKey
    /\ ocr_raised = FALSE
    /\ det_pc = "idle"
    /\ radius = 0
    /\ contours = <<>>
    /\ final_bubbles = <<>>
    /\ resuppressed = <<>>
    \* evaluate_bubbles is not running
    /\ eval_pc = "idle"
    /\ bubble_style = EmptyDict
    /\ thresh_img = <<>>
    /\ eval_bubbles = <<>>

\* bubbles = processor.map_bubbles_to_structure(raw_bubbles), and again on the
\* same list
MapBubbles ==
    /\ UNCHANGED notMap
    /\ map_runs < MaxRuns
    /\ LET run == MapBubblesToStructure(detected_bubbles, template)
       IN  /\ detected_bubbles' = run.bubbles
           /\ mapped_bubbles' = run.mapped
           /\ first_run' = IF map_runs = 0 THEN run ELSE first_run
    /\ map_runs' = map_runs + 1
    /\ UNCHANGED template

MapNext == MapBubbles

----------------------------------------------------------------------------
(* OMRProcessor.scan_for_bubbles, src/omr_processor.py.  cv2.contourArea is a
   multiple of 0.5: a contour carries area2 = 2 * area.  np.pi is enclosed
   between rationals, and the images are those whose contours the enclosures
   decide. *)

\* 3.1415 < pi < 3.1416, for the comparisons of areas
PiLo == <<31415, 10000>>
PiHi == <<31416, 10000>>
\* 333/106 < pi < 355/113, for the comparisons of circularities
PiLoC == <<333, 106>>
PiHiC == <<355, 113>>

\* line 20
Radius(bubble_dims) == Min(bubble_dims[1], bubble_dims[2]) \div 2

\* area > f * pi * r^2 for f = fnum / 10, whatever pi is between PiLo and PiHi
AreaAbove(area2, r, fnum) == 5 * area2 * PiHi[2] >= fnum * r * r * PiHi[1]
\* area < f * pi * r^2
AreaBelow(area2, r, fnum) == 5 * area2 * PiLo[2] <= fnum * r * r * PiLo[1]

\* line 69, with lines 58-63: min_area_filter < area < max_area_filter
AreaFilterNoMax(area2, r) == AreaAbove(area2, r, 5)
AreaFilter(area2, r) == AreaAbove(area2, r, 5) /\ AreaBelow(area2, r, 50)

\* line 72: circularity = pi * n / d
Circularity(area2, perimeter) == [n |-> 2 * area2, d |-> perimeter * perimeter]
\* line 77: circularity > 0.85, whatever pi is between PiLoC and PiHiC
Circular(circ) == 20 * PiLoC[1] * circ.n >= 17 * PiLoC[2] * circ.d
NotCircular(circ) == 20 * PiHiC[1] * circ.n <= 17 * PiHiC[2] * circ.d

\* the contours on which every comparison has the result the enclosures give
Decided(cnt, r) ==
    /\ AreaAbove(cnt.area2, r, 5) \/ AreaBelow(cnt.area2, r, 5)
    /\ AreaAbove(cnt.area2, r, 50) \/ AreaBelow(cnt.area2, r, 50)
    /\ cnt.perimeter = 0
          \/ Circular(Circularity(cnt.area2, cnt.perimeter))
          \/ NotCircular(Circularity(cnt.area2, cnt.perimeter))

\* lines 67-82: the candidate of a contour, <<>> when the contour is dropped
CandidatesOf(cnt, r) ==
    IF ~AreaFilter(cnt.area2, r) THEN <<>>
    ELSE IF cnt.perimeter = 0 THEN <<>>
    ELSE IF ~Circular(Circularity(cnt.area2, cnt.perimeter)) THEN <<>>
    ELSE IF cnt.area2 = 0 THEN <<>>
    ELSE <<[x |-> cnt.cx, y |-> cnt.cy, r |-> r, area2 |-> cnt.area2,
            circ |-> Circularity(cnt.area2, cnt.perimeter)]>>

RECURSIVE Candidates(_, _)
Candidates(cnts, r) ==
    IF Len(cnts) = 0 THEN <<>>
    ELSE CandidatesOf(cnts[1], r) \o Candidates(Tail(cnts), r)

\* the candidates sorted small to large
SortByAreaAsc(candidates) ==
    LET order == SortByKey(Indices(candidates),
                           [k \in 1..Len(candidates) |-> candidates[k].area2])
    IN  [k \in 1..Len(candidates) |-> candidates[order[k]]]

\* line 88: candidates.sort(key=area, reverse=True), a stable sort
SortByAreaDesc(candidates) ==
    LET order == SortByKey(Indices(candidates),
                           [k \in 1..Len(candidates) |-> 0 - candidates[k].area2])
    IN  [k \in 1..Len(candidates) |-> candidates[order[k]]]

NMS_DIST == 10
\* lines 95-96: dist < 10
TooClose(c, kept) ==
    (c.x - kept.x) * (c.x - kept.x) + (c.y - kept.y) * (c.y - kept.y)
        < NMS_DIST * NMS_DIST

\* is_duplicate, comparing a candidate with the candidate sorted before it only
IsDuplicateOfPrevious(sorted, k, kept_list) ==
    k > 1 /\ TooClose(sorted[k], sorted[k - 1])

\* lines 93-98
IsDuplicate(sorted, k, kept_list) ==
    \E j \in 1..Len(kept_list) : TooClose(sorted[k], kept_list[j])

\* lines 90-101
RECURSIVE Greedy(_, _, _)
Greedy(sorted, k, kept_list) ==
    IF k > Len(sorted) THEN kept_list
    ELSE Greedy(sorted, k + 1,
                IF IsDuplicate(sorted, k, kept_list) THEN kept_list
                ELSE Append(kept_list, sorted[k]))

\* lines 84-101
Suppress(candidates) == Greedy(SortByAreaDesc(candidates), 1, <<>>)

Contour(area2, perimeter, cx, cy) ==
    [area2 |-> area2, perimeter |-> perimeter, cx |-> cx, cy |-> cy]
\* the contours of the images: the outer and the inner ring of a printed bubble
\* (areas 1370 and 1030, line 87), a third ring, bubbles elsewhere, a
\* handwritten box (line 75), noise (line 61), a blot, and areas next to half
\* the expected area of radius 22
ContourMenu == {
    Contour(2740, 138, 100, 100), Contour(2060, 120, 109, 100),
    Contour(1600, 104, 91, 100), Contour(2060, 120, 100, 100),
    Contour(2740, 138, 110, 100), Contour(2740, 138, 300, 100),
    Contour(3200, 160, 300, 300), Contour(260, 42, 200, 200),
    Contour(16000, 320, 500, 500), Contour(1520, 100, 400, 100),
    Contour(1521, 100, 400, 200) }
BubbleDims == {<<44, 44>>, <<32, 30>>}

RECURSIVE ContourLists(_)
ContourLists(n) ==
    IF n = 0 THEN {<<>>}
    ELSE LET shorter == ContourLists(n - 1)
         IN  shorter \cup {Append(l, c) : l \in {m \in shorter : Len(m) = n - 1},
                                          c \in ContourMenu}

DetInit ==
    /\ det_pc = "scan"
    /\ \E dims \in BubbleDims : radius = Radius(dims)
    /\ contours \in {l \in ContourLists(MaxContours) :
                        \A j, k \in 1..Len(l) : j # k => l[j] # l[k]}
    /\ \A k \in 1..Len(contours) : Decided(contours[k], radius)
    /\ final_bubbles = <<>>
    /\ resuppressed = <<>>
    \* main(), extract_roll_digits and the mapper are not running
    /\ pc = "idle"
    /\ template_found = FALSE
    /\ pdf = "none"
    /\ page_marks = <<>>
    /\ image = "none"
    /\ raw_bubbles = <<>>
    /\ evaluated_bubbles = <<>>
    /\ ocr_engine = None
    /\ key_file = [exists |-> FALSE, answers |-> EmptyDict]
    /\ roll_cols_detected = EmptyDict
    /\ final_roll_chars = <<>>
    /\ rollNumber = <<>>
    /\ rollValidation = NoKey
    /\ ocrRollNumber = NoKey
    /\ responses = EmptyDict
    /\ answer_key = EmptyDict
    /\ max_q = 0
    /\ i = 0
    /\ correct_count = 0
    /\ wrong_count = 0
    /\ unanswered_count = 0
    /\ score_details = <<>>
    /\ summary = NoKey
    /\ ocr_pc = "idle"
    /\ rn_conf = NoBlock
    /\ strip_rects = <<>>
    /\ v_lines = <<>>
    /\ pytesseract = FALSE
    /\ boxes = <<>>
    /\ idx = 0
    /\ variant = 0
    /\ found_digit = "?"
    /\ detected_res = <<>>
    /\ calls = <<>>
    /\ ocr_return = NoKey
    /\ ocr_raised = FALSE
    /\ template = NoKey
    /\ detected_bubbles = <<>>
    /\ mapped_bubbles = <<>>
    /\ map_runs = 0
    /\ first_run = NoKey
    \* evaluate_bubbles is not running
    /\ eval_pc = "idle"
    /\ bubble_style = EmptyDict
    /\ thresh_img = <<>>
    /\ eval_bubbles = <<>>

\* raw_bubbles = processor.scan_for_bubbles(image)
Scan ==
    /\ UNCHANGED notDet
    /\ det_pc = "scan"
    /\ final_bubbles' = Suppress(Candidates(contours, radius))
    /\ det_pc' = "scanned"
    /\ UNCHANGED <<radius, contours, resuppressed>>

\* lines 84-101 once more, on the list returned
Resuppress ==
    /\ UNCHANGED notDet
    /\ det_pc = "scanned"
    /\ resuppressed' = Suppress(final_bubbles)
    /\ det_pc' = "done"
    /\ UNCHANGED <<radius, contours, final_bubbles>>

DetNext == Scan \/ Resuppress

----------------------------------------------------------------------------
(* OMRProcessor.evaluate_bubbles, src/omr_processor.py.  A fill ratio
   filled_pixels / (pi * mask_radius^2) is kept as the pair of filled_pixels
   and mask_radius^2; comparisons enclose pi between PiLo and PiHi. *)

\* lines 441-442: int(b['r'] * 0.6), at least 2
MaskRadius(r) == Max((r * 6) \div 10, 2)

\* line 445: the pixels of the filled circle that cv2.circle draws
DiskPixels(mask_radius) ==
    Cardinality({p \in (0 - mask_radius..mask_radius) \X (0 - mask_radius..mask_radius) :
                    p[1] * p[1] + p[2] * p[2] <= mask_radius * mask_radius})

\* lines 451-454: ratio = n / (pi * m)
FillRatio(filled_pixels, mask_radius) ==
    IF mask_radius * mask_radius > 0
    THEN [n |-> filled_pixels, m |-> mask_radius * mask_radius]
    ELSE [n |-> 0, m |-> 1]

\* ratio >= t for t = t[1] / t[2], whatever pi is between PiLo and PiHi
RatioAtLeast(ratio, t) == ratio.n * t[2] * PiHi[2] >= t[1] * ratio.m * PiHi[1]
\* ratio < t
RatioBelow(ratio, t) == ratio.n * t[2] * PiLo[2] <= t[1] * ratio.m * PiLo[1]

\* FillThreshold with the default of line 431
FillThresholdFirstDefault(b_style) == Get(b_style, "fillThreshold", <<1, 2>>)

\* line 467: t_thresh
FillThreshold(b_style) == Get(b_style, "fillThreshold", <<35, 100>>)

\* lines 439-455 and 478-480 for one mark
Evaluated(b, filled_pixels, b_style) ==
    LET ratio == FillRatio(filled_pixels, MaskRadius(b.r))
    IN  [x |-> b.x, y |-> b.y, r |-> b.r, fill_ratio |-> ratio,
         filled |-> RatioAtLeast(ratio, FillThreshold(b_style))]

\* the bubbleStyle sections of the layouts
BubbleStyles == <<EmptyDict, [fillThreshold |-> <<1, 5>>],
                  [fillThreshold |-> <<1, 2>>], [fillThreshold |-> <<35, 100>>]>>
\* self.radius of the layouts (bubbleDimensions 44, 34 and 6)
EvalRadii == {22, 17, 3}
\* ink in the disk of a mark of n pixels: none, a fifth, two fifths, a half, all
InkLevels(n) == {0, n \div 5, (2 * n) \div 5, n \div 2, n}

EvalInit ==
    /\ eval_pc = "evaluate"
    /\ \E s \in 1..Len(BubbleStyles) : bubble_style = BubbleStyles[s]
    /\ \E r \in EvalRadii, n \in 0..MaxMarks :
          /\ eval_bubbles = [k \in 1..n |-> [x |-> 100 * k, y |-> 1000, r |-> r]]
          /\ thresh_img \in [1..n -> InkLevels(DiskPixels(MaskRadius(r)))]
          /\ \A k \in 1..n :
                LET ratio == FillRatio(thresh_img[k], MaskRadius(r))
                IN  /\ RatioAtLeast(ratio, FillThreshold(bubble_style))
                       \/ RatioBelow(ratio, FillThreshold(bubble_style))
                    /\ RatioAtLeast(ratio, <<1, 2>>) \/ RatioBelow(ratio, <<1, 2>>)
    \* main(), extract_roll_digits, the mapper and the detector are not running
    /\ pc = "idle"
    /\ template_found = FALSE
    /\ pdf = "none"
    /\ page_marks = <<>>
    /\ image = "none"
    /\ raw_bubbles = <<>>
    /\ evaluated_bubbles = <<>>
    /\ ocr_engine = None
    /\ key_file = [exists |-> FALSE, answers |-> EmptyDict]
    /\ roll_cols_detected = EmptyDict
    /\ final_roll_chars = <<>>
    /\ rollNumber = <<>>
    /\ rollValidation = NoKey
    /\ ocrRollNumber = NoKey
    /\ responses = EmptyDict
    /\ answer_key = EmptyDict
    /\ max_q = 0
    /\ i = 0
    /\ correct_count = 0
    /\ wrong_count = 0
    /\ unanswered_count = 0
    /\ score_details = <<>>
    /\ summary = NoKey
    /\ ocr_pc = "idle"
    /\ rn_conf = NoBlock
    /\ strip_rects = <<>>
    /\ v_lines = <<>>
    /\ pytesseract = FALSE
    /\ boxes = <<>>
    /\ idx = 0
    /\ variant = 0
    /\ found_digit = "?"
    /\ detected_res = <<>>
    /\ calls = <<>>
    /\ ocr_return = NoKey
    /\ ocr_raised = FALSE
    /\ template = NoKey
    /\ detected_bubbles = <<>>
    /\ mapped_bubbles = <<>>
    /\ map_runs = 0
    /\ first_run = NoKey
    \* the detector is not running
    /\ det_pc = "idle"
    /\ radius = 0
    /\ contours = <<>>
    /\ final_bubbles = <<>>
    /\ resuppressed = <<>>

\* evaluated_bubbles = processor.evaluate_bubbles(image, bubbles)
EvaluateBubbles ==
    /\ UNCHANGED notEval
    /\ eval_pc = "evaluate"
    /\ eval_bubbles' = [k \in 1..Len(eval_bubbles) |->
                      Evaluated(eval_bubbles[k], thresh_img[k], bubble_style)]
    /\ eval_pc' = "done"
    /\ UNCHANGED <<bubble_style, thresh_img>>

EvalNext == EvaluateBubbles

----------------------------------------------------------------------------
(* Specifications: one per entry point *)

SpecMain == MainInit /\ [][MainNext]_vars

\* main() is sequential code: a step that can be taken is taken
SpecNoMarks == NoMarksInit /\ [][MainNext]_vars /\ WF_vars(MainNext)

SpecRoundTrip == RoundTripInit /\ [][RoundTripNext]_vars

SpecOcr == OcrInit /\ [][OcrNext]_vars

SpecMap == MapInit /\ [][MapNext]_vars

SpecDet == DetInit /\ [][DetNext]_vars

SpecEval == EvalInit /\ [][EvalNext]_vars

----------------------------------------------------------------------------
(* Properties of main() *)

\* what the properties read off the evaluated marks
InColBlock(b) ==
    Len(b.group) >= 3 /\ b.group[1] = "c" /\ b.group[2] = "o" /\ b.group[3] = "l"
MarksOfQuestion(q) ==
    {k \in 1..Len(evaluated_bubbles) : evaluated_bubbles[k].question = q}
FilledOfQuestion(q) == {k \in MarksOfQuestion(q) : evaluated_bubbles[k].filled}
ColMarksOfQuestion(q) ==
    {k \in MarksOfQuestion(q) : InColBlock(evaluated_bubbles[k])}
ColFilledOfQuestion(q) == {k \in ColMarksOfQuestion(q) : evaluated_bubbles[k].filled}
MappedQuestions ==
    {evaluated_bubbles[k].question : k \in 1..Len(evaluated_bubbles)} \ {NoQuestion}
ColQuestions ==
    {evaluated_bubbles[k].question :
        k \in {j \in 1..Len(evaluated_bubbles) : InColBlock(evaluated_bubbles[j])}}
CountStatus(S) ==
    Cardinality({k \in 1..Len(score_details) : score_details[k].status \in S})

\* C1: in every iteration of the scoring loop, a non-empty response equal to the
\* key entry is graded CORRECT and increments only the correct counter; a MULTIPLE
\* response is graded INVALID_MULTIPLE and increments only the wrong counter.
C1_ScoringLoop ==
    [][(pc = "score" /\ i <= max_q) =>
        LET response == Get(responses, Str(i), "")
            correct == Get(answer_key, Str(i), "")
            detail == score_details'[Len(score_details')]
        IN  /\ Len(score_details') = i
            /\ detail.question = i
            /\ (response # "" /\ response = correct) =>
                  /\ detail.status = "CORRECT"
                  /\ correct_count' = correct_count + 1
                  /\ wrong_count' = wrong_count
                  /\ unanswered_count' = unanswered_count
            /\ (response = "MULTIPLE") =>
                  /\ detail.status = "INVALID_MULTIPLE"
                  /\ wrong_count' = wrong_count + 1
                  /\ correct_count' = correct_count
                  /\ unanswered_count' = unanswered_count]_vars

C1_Witness ==
    /\ pc = "done"
    /\ \E k \in 1..Len(score_details) : score_details[k].status = "CORRECT"
    /\ \E k \in 1..Len(score_details) : score_details[k].status = "INVALID_MULTIPLE"

\* the key has entries for exactly the questions 1..n
KeyIsExactly(n) ==
    /\ key_file.exists
    /\ DOMAIN key_file.answers = {Str(q) : q \in 1..n}

AllCorrectReport(n) ==
    /\ summary.total_questions = n
    /\ summary.correct = n
    /\ summary.wrong = 0
    /\ summary.unanswered = 0

\* C2 as stated: if for every question 1..n the evaluated marks hold exactly one
\* filled mark, whose option is the key entry, and the key has entries for exactly
\* 1..n, the report has correct = total_questions = n, wrong = 0, unanswered = 0.
C2_AsStated ==
    pc = "done" =>
        \A n \in 1..MaxQ :
            (/\ KeyIsExactly(n)
             /\ \A q \in 1..n :
                   /\ Cardinality(FilledOfQuestion(q)) = 1
                   /\ \A k \in FilledOfQuestion(q) :
                         evaluated_bubbles[k].value = key_file.answers[Str(q)])
            => AllCorrectReport(n)

\* C2, amended: the marks that count are those of blocks whose name starts with
\* 'col', and no such mark belongs to a question beyond n.
C2_EndToEnd ==
    pc = "done" =>
        \A n \in 1..MaxQ :
            (/\ KeyIsExactly(n)
             /\ ColQuestions \subseteq 1..n
             /\ \A q \in 1..n :
                   /\ Cardinality(ColFilledOfQuestion(q)) = 1
                   /\ \A k \in ColFilledOfQuestion(q) :
                         evaluated_bubbles[k].value = key_file.answers[Str(q)])
            => AllCorrectReport(n)

C2_Witness ==
    /\ pc = "done"
    /\ KeyIsExactly(MaxQ)
    /\ ColQuestions = 1..MaxQ
    /\ \A q \in 1..MaxQ :
          /\ Cardinality(ColFilledOfQuestion(q)) = 1
          /\ \A k \in ColFilledOfQuestion(q) :
                evaluated_bubbles[k].value = key_file.answers[Str(q)]
    /\ summary.correct = MaxQ

\* the response and the grading of question q, given the filled marks F of q
ValidatedAs(q, F) ==
    /\ Str(q) \in DOMAIN responses
    /\ q <= Len(score_details)
    /\ score_details[q].question = q
    /\ score_details[q].marked = responses[Str(q)]
    /\ Cardinality(F) = 1 =>
          \A k \in F : responses[Str(q)] = evaluated_bubbles[k].value
    /\ Cardinality(F) > 1 =>
          /\ responses[Str(q)] = "MULTIPLE"
          /\ score_details[q].status = "INVALID_MULTIPLE"
    /\ Cardinality(F) = 0 =>
          /\ responses[Str(q)] = ""
          /\ score_details[q].status = "UNANSWERED"

CountersMatchDetails ==
    /\ wrong_count = CountStatus({"WRONG", "INVALID_MULTIPLE"})
    /\ unanswered_count = CountStatus({"UNANSWERED"})
    /\ correct_count = CountStatus({"CORRECT"})

\* C3 as stated: every question with at least one mapped mark gets the option of
\* its single filled mark, MULTIPLE (graded INVALID_MULTIPLE, counted wrong) for
\* several filled marks, and an empty response graded UNANSWERED for none.
C3_AsStated ==
    pc = "done" =>
        /\ CountersMatchDetails
        /\ \A q \in MappedQuestions : ValidatedAs(q, FilledOfQuestion(q))

\* C3, amended: the questions validated are those with at least one mapped mark in
\* a block whose name starts with 'col'.
C3_ResponseValidation ==
    pc = "done" =>
        /\ CountersMatchDetails
        /\ \A q \in ColQuestions : ValidatedAs(q, ColFilledOfQuestion(q))

C3_Witness ==
    /\ pc = "done"
    /\ \E q \in ColQuestions : Cardinality(ColFilledOfQuestion(q)) > 1
    /\ \E q \in ColQuestions : Cardinality(ColFilledOfQuestion(q)) = 0
    /\ wrong_count = 1
    /\ unanswered_count = 1

\* the filled identification marks of column d, found by their identity
FilledInColumn(d) ==
    {k \in 1..Len(evaluated_bubbles) :
        /\ evaluated_bubbles[k].group = RollGroup
        /\ evaluated_bubbles[k].filled
        /\ \E r \in 1..Len(RollLabels) :
              evaluated_bubbles[k].id = RollId(d, RollLabels[r])}
OverfilledColumns ==
    {d \in 0..(MaxDigits - 1) : Cardinality(FilledInColumn(d)) > 1}
FirstOverfilled == CHOOSE d \in OverfilledColumns : \A e \in OverfilledColumns : d <= e

\* C4: the identification number is INVALID iff some identification column has
\* more than one filled mark; the reason then names the lowest such column, and
\* the scan stopped there (one character per column with a filled mark up to it).
C4_RollInvalid ==
    pc \in {"ocr", "responses", "key", "score", "done"} =>
        /\ (rollNumber = INVALID) <=> (OverfilledColumns # {})
        /\ OverfilledColumns # {} =>
              /\ rollValidation =
                     RollErrorReason(FirstOverfilled,
                                     Cardinality(FilledInColumn(FirstOverfilled)))
              /\ Len(final_roll_chars) =
                     Cardinality({d \in 0..FirstOverfilled : FilledInColumn(d) # {}})
              /\ final_roll_chars[Len(final_roll_chars)] = "?"

C4_Witness ==
    /\ pc = "done"
    /\ Cardinality(OverfilledColumns) >= 2
    /\ rollNumber = INVALID

\* the labels of the filled marks of the columns d, d + 1, ..., one after the
\* other, for columns with at most one filled mark
RECURSIVE LabelsFromColumn(_)
LabelsFromColumn(d) ==
    IF d >= MaxDigits THEN <<>>
    ELSE (IF FilledInColumn(d) = {} THEN <<>>
          ELSE <<evaluated_bubbles[CHOOSE k \in FilledInColumn(d) : TRUE].value>>)
         \o LabelsFromColumn(d + 1)

\* C25: when no identification column has more than one filled mark, the
\* identification number is the labels of the filled marks in ascending
\* column index; a column without filled mark adds no character and the
\* number is not INVALID.
C25_RollFromSingleMarks ==
    (pc \in {"ocr", "responses", "key", "score", "done"} /\ OverfilledColumns = {}) =>
        /\ rollNumber = LabelsFromColumn(0)
        /\ rollNumber # INVALID
        /\ Len(rollNumber) =
               Cardinality({d \in 0..(MaxDigits - 1) : FilledInColumn(d) # {}})
        /\ Len(rollNumber) > 0 => rollValidation = <<"OK">>

\* the first column has no filled mark and the last has one: one character
C25_Witness ==
    /\ pc = "done"
    /\ FilledInColumn(0) = {}
    /\ Cardinality(FilledInColumn(MaxDigits - 1)) = 1
    /\ Len(rollNumber) = Cardinality({d \in 0..(MaxDigits - 1) : FilledInColumn(d) # {}})
    /\ rollNumber[Len(rollNumber)] = "1"
    /\ rollValidation = <<"OK">>

\* two columns with one filled mark each, of different labels
C25_TwoColumns ==
    /\ pc = "done"
    /\ rollNumber = <<"1", "0">>

\* C26: correct + wrong + unanswered = total_questions = the number of detail
\* entries in the report, and every iteration of the scoring loop increments
\* exactly one of the three counters by one and adds one detail entry.
C26_CountersAddUp ==
    /\ [](pc = "done" =>
              /\ summary.correct + summary.wrong + summary.unanswered
                     = summary.total_questions
              /\ summary.total_questions = Len(score_details)
              /\ summary.correct = CountStatus({"CORRECT"})
              /\ summary.wrong = CountStatus({"WRONG", "INVALID_MULTIPLE"})
              /\ summary.unanswered = CountStatus({"UNANSWERED"}))
    /\ [](pc = "score" =>
              correct_count + wrong_count + unanswered_count = Len(score_details))
    /\ [][(pc = "score" /\ i <= max_q) =>
              /\ Len(score_details') = Len(score_details) + 1
              /\ \/ /\ correct_count' = correct_count + 1
                    /\ wrong_count' = wrong_count
                    /\ unanswered_count' = unanswered_count
                 \/ /\ correct_count' = correct_count
                    /\ wrong_count' = wrong_count + 1
                    /\ unanswered_count' = unanswered_count
                 \/ /\ correct_count' = correct_count
                    /\ wrong_count' = wrong_count
                    /\ unanswered_count' = unanswered_count + 1]_vars

\* a report with a correct and a wrong answer that is not a multiple mark
C26_Witness ==
    /\ pc = "done"
    /\ summary.correct = 1
    /\ summary.wrong = 1
    /\ \E k \in 1..Len(score_details) : score_details[k].status = "WRONG"
    /\ summary.total_questions = Len(score_details)

\* a report over the default range of 60 questions, all unanswered
C26_DefaultRange ==
    /\ pc = "done"
    /\ summary.total_questions = DefaultMaxQ
    /\ summary.unanswered = DefaultMaxQ

\* the key was generated from the marks that were scored afterwards
RoundTripDone == pc = "done" /\ key_file.exists /\ evaluated_bubbles = page_marks
\* the first of a non-empty set of indices of the list of marks
First(F) == CHOOSE k \in F : \A m \in F : k <= m
\* question q with the filled marks F has the key entry and the grading of
\* the round trip
RoundTripGraded(q, F) ==
    /\ q <= Len(score_details)
    /\ score_details[q].question = q
    /\ Cardinality(F) = 1 =>
          /\ score_details[q].status = "CORRECT"
          /\ key_file.answers[Str(q)] = evaluated_bubbles[First(F)].value
    /\ Cardinality(F) > 1 =>
          /\ score_details[q].status = "INVALID_MULTIPLE"
          /\ Str(q) \in DOMAIN key_file.answers
          /\ key_file.answers[Str(q)] = evaluated_bubbles[First(F)].value
    /\ Cardinality(F) = 0 =>
          /\ Str(q) \notin DOMAIN key_file.answers
          /\ score_details[q].status = "UNANSWERED"

\* C27 as stated: after a key is generated from the evaluated marks and the
\* same marks are scored against it, every question with one filled mark is
\* CORRECT, with several INVALID_MULTIPLE (the key has the first filled
\* option), with none absent from the key and UNANSWERED.
C27_AsStated ==
    RoundTripDone =>
        \A q \in MappedQuestions : RoundTripGraded(q, FilledOfQuestion(q))

\* C27: the same, for the questions with a mark in a block whose name starts
\* with 'col', counting the filled marks of such blocks.
C27_RoundTrip ==
    RoundTripDone =>
        \A q \in ColQuestions : RoundTripGraded(q, ColFilledOfQuestion(q))

\* a round trip with a question of one filled mark and a question of two
C27_Witness ==
    /\ RoundTripDone
    /\ \E q \in ColQuestions :
          /\ Cardinality(ColFilledOfQuestion(q)) = 1
          /\ score_details[q].status = "CORRECT"
    /\ \E q \in ColQuestions :
          /\ Cardinality(ColFilledOfQuestion(q)) = 2
          /\ score_details[q].status = "INVALID_MULTIPLE"
          /\ key_file.answers[Str(q)] = "A"

\* a round trip with a question without filled mark
C27_NoneFilled ==
    /\ RoundTripDone
    /\ \E q \in ColQuestions :
          /\ ColFilledOfQuestion(q) = {}
          /\ score_details[q].status = "UNANSWERED"
    /\ DOMAIN key_file.answers # {}

\* the marks that may contribute: a 'q' in the identity and a block name that
\* starts with 'col'
Contributing ==
    {k \in 1..Len(evaluated_bubbles) :
        /\ \E c \in 1..Len(evaluated_bubbles[k].id) : evaluated_bubbles[k].id[c] = "q"
        /\ InColBlock(evaluated_bubbles[k])}
\* every response and every entry of the generated key comes from
\* contributing marks, a non-empty one from filled contributing marks
OnlyContributingMarksCount ==
    /\ \A q_str \in DOMAIN responses :
          /\ \E k \in Contributing : Str(evaluated_bubbles[k].question) = q_str
          /\ responses[q_str] \notin {"", "MULTIPLE"} =>
                \E k \in Contributing :
                    /\ Str(evaluated_bubbles[k].question) = q_str
                    /\ evaluated_bubbles[k].filled
                    /\ evaluated_bubbles[k].value = responses[q_str]
          /\ responses[q_str] = "MULTIPLE" =>
                \E k \in Contributing :
                    /\ Str(evaluated_bubbles[k].question) = q_str
                    /\ evaluated_bubbles[k].filled
    /\ \A q_str \in DOMAIN key_file.answers :
          \E k \in Contributing :
              /\ Str(evaluated_bubbles[k].question) = q_str
              /\ evaluated_bubbles[k].filled
              /\ evaluated_bubbles[k].value = key_file.answers[q_str]
\* the questions whose marks are all in blocks not named 'col...'
OtherBlockQuestions == MappedQuestions \ ColQuestions
NoResponse(q) ==
    /\ Str(q) \notin DOMAIN responses
    /\ Str(q) \notin DOMAIN key_file.answers

\* C28 as stated: only marks with a 'q' in the identity and a block name that
\* starts with 'col' contribute to the responses and the generated key; the
\* questions of other blocks get no response and are scored UNANSWERED.
C28_AsStated ==
    pc = "done" =>
        /\ OnlyContributingMarksCount
        /\ \A q \in OtherBlockQuestions :
              /\ NoResponse(q)
              /\ q <= Len(score_details)
              /\ score_details[q].status = "UNANSWERED"

\* C28: only marks with a 'q' in the identity and a block name that starts
\* with 'col' contribute to the responses and the generated key; the
\* questions of other blocks get no response, and are scored UNANSWERED if
\* their number is within 1..total_questions and not scored otherwise.
C28_OnlyColBlocksCount ==
    pc = "done" =>
        /\ OnlyContributingMarksCount
        /\ \A q \in OtherBlockQuestions :
              /\ NoResponse(q)
              /\ IF q <= summary.total_questions
                 THEN /\ score_details[q].question = q
                      /\ score_details[q].status = "UNANSWERED"
                      /\ score_details[q].marked = ""
                 ELSE Len(score_details) < q

\* a filled mark of a block named 'Block1' for question 1, scored UNANSWERED,
\* next to an answered question of a block named 'col1'
C28_Witness ==
    /\ pc = "done"
    /\ 1 \in OtherBlockQuestions
    /\ FilledOfQuestion(1) # {}
    /\ score_details[1].status = "UNANSWERED"
    /\ \E q \in ColQuestions : score_details[q].status = "CORRECT"

\* a filled mark of a block named 'Block1' for a question past total_questions
C28_NotScored ==
    /\ pc = "done"
    /\ \E q \in OtherBlockQuestions :
          FilledOfQuestion(q) # {} /\ q > summary.total_questions

\* C5: when the OCR'd identification string is non-empty, roll_match_ocr is true
\* exactly when the identification number read from the bubbles equals it
\* character for character.
C5_RollMatchOcr ==
    (pc = "done" /\ ocrRollNumber # <<>> /\ ocrRollNumber # None) =>
        /\ summary.roll_match_ocr \in {"True", "False"}
        /\ (summary.roll_match_ocr = "True") <=>
              /\ Len(rollNumber) = Len(ocrRollNumber)
              /\ \A k \in 1..Len(rollNumber) : rollNumber[k] = ocrRollNumber[k]

\* a mismatch in exactly one digit
C5_Witness ==
    /\ pc = "done"
    /\ summary.roll_match_ocr = "False"
    /\ Len(rollNumber) = Len(ocrRollNumber)
    /\ Cardinality({k \in 1..Len(rollNumber) : rollNumber[k] # ocrRollNumber[k]}) = 1
    /\ \A k \in 1..Len(rollNumber) : IsDigitChar(rollNumber[k])

\* the question numbers of the answer key file and of the detected responses
KeyNumbers ==
    IF key_file.exists THEN {ParseInt(k) : k \in DOMAIN key_file.answers} ELSE {}
NumbersInEither == KeyNumbers \cup ColQuestions

\* C13: when the answer key or the detected responses is non-empty,
\* total_questions is the largest question number occurring in either, the
\* details hold exactly one entry for each of 1..total_questions in ascending
\* order, and a number with neither a response nor a key entry is UNANSWERED.
C13_TotalAndDetails ==
    (pc = "done" /\ NumbersInEither # {}) =>
        /\ summary.total_questions = SetMax(NumbersInEither)
        /\ Len(score_details) = summary.total_questions
        /\ \A k \in 1..Len(score_details) :
              /\ score_details[k].question = k
              /\ k \notin NumbersInEither => score_details[k].status = "UNANSWERED"

\* the largest number is in the key or the responses, a smaller one in neither
C13_Witness ==
    /\ pc = "done"
    /\ NumbersInEither # {}
    /\ \E k \in 1..(SetMax(NumbersInEither) - 1) : k \notin NumbersInEither
    /\ KeyNumbers # {}
    /\ ColQuestions # {}

\* the rasterizer raised or returned no page, or the source document is absent
CollaboratorFailed == template_found /\ pdf # "pages"

\* C14: a failure of an external collaborator aborts the run for that sheet: no
\* marks are detected, mapped or evaluated and no Score Report is produced
\* after it.
C14_FailureAborts ==
    CollaboratorFailed =>
        /\ pc \notin {"roll", "ocr", "responses", "key", "score", "done"}
        /\ summary = NoKey

\* the detector returned no mark
DetectionEmpty == pc \notin {"start", "scan"} /\ Len(raw_bubbles) = 0

\* the report of a sheet without marks
EmptyReport ==
    /\ rollNumber = <<>>
    /\ responses = EmptyDict
    /\ \A q \in KeyNumbers :
          q >= 1 => /\ q <= Len(score_details)
                    /\ score_details[q].status = "UNANSWERED"
    /\ summary.unanswered = summary.total_questions
    /\ summary.correct = 0
    /\ summary.wrong = 0

\* C15: when the detector returns no marks, main() still runs mapping,
\* evaluation and scoring to completion and produces a Score Report with an
\* empty identification number, no responses and every question of the answer
\* key UNANSWERED.
C15_EmptyDetectionCompletes ==
    /\ [](template_found => pc # "returned")
    /\ []((pc = "done" /\ DetectionEmpty) => EmptyReport)
    /\ (pc = "roll" /\ DetectionEmpty) ~> (pc = "done" /\ EmptyReport)

\* a report for a sheet without marks, scored against a key with entries
C15_Witness ==
    /\ pc = "done"
    /\ DetectionEmpty
    /\ Cardinality(KeyNumbers) = MaxQ
    /\ summary.unanswered = MaxQ

----------------------------------------------------------------------------
(* Properties of extract_roll_digits *)

\* a recognition call that raised or gave no usable digit
NoUsableDigit(call) ==
    \/ call.out = RAISE
    \/ /\ call.mode = "digits"
       /\ LET c == Strip(call.out)
          IN  Len(c) = 0 \/ \E k \in 1..Len(c) : ~IsDigitChar(c[k])
    \/ /\ call.mode = "raw"
       /\ LET t == Strip(call.out)
          IN  \/ Len(t) = 0
              \/ /\ t[1] \notin DOMAIN Corrections
                 /\ \A k \in 1..Len(t) : t[k] # "A"
AllCallsFailed ==
    /\ Len(calls) = Len(Variants) + 1
    /\ \A k \in 1..Len(calls) : NoUsableDigit(calls[k])

\* C6: a cell whose four recognition calls all raise or give no usable digit
\* contributes "?" at its position and the next cell is taken up; no exception of
\* the engine leaves extract_roll_digits, which returns one character per cell.
C6_SentinelNotCrash ==
    /\ [](~ocr_raised /\ ocr_pc # "raised")
    /\ []((ocr_pc = "done" /\ pytesseract /\ Len(boxes) > 0) =>
              Len(ocr_return) = Len(boxes))
    /\ [][(ocr_pc = "append" /\ AllCallsFailed) =>
              /\ detected_res' = Append(detected_res, "?")
              /\ Len(detected_res') = idx + 1
              /\ idx' = idx + 1
              /\ ocr_pc' = "cell"]_vars

C6_Witness ==
    /\ ocr_pc = "done"
    /\ Len(boxes) = MaxCells
    /\ AllCallsFailed
    /\ \A k \in 1..Len(calls) : calls[k].out = RAISE
    /\ ocr_return[Len(boxes)] = "?"
    /\ ocr_return[1] = "7"

\* the geometry path _get_roll_roi_boxes took for the boxes
DynamicPath ==
    /\ BestStrip(strip_rects) # NoStrip
    /\ CalculatedCellW(ValidIntervals(FinalLines(
           LineXs(v_lines, BestStrip(strip_rects).h)))) # 0
StripFallbackPath == BestStrip(strip_rects) # NoStrip /\ ~DynamicPath
TemplateFallbackPath == BestStrip(strip_rects) = NoStrip

\* C16: with a rollNumber section in the layout and the engine available,
\* extract_roll_digits returns exactly `digits` characters on each of the
\* three geometry paths; each is a digit or "?", and the character at position
\* idx + 1 is the one found for box idx + 1, the boxes running left to right.
C16_OneCharPerDigit ==
    /\ []((ocr_pc = "done" /\ pytesseract /\ rn_conf.present) =>
              /\ DynamicPath \/ StripFallbackPath \/ TemplateFallbackPath
              /\ Len(boxes) = rn_conf.conf.digits
              /\ Len(ocr_return) = rn_conf.conf.digits
              /\ ocr_return = detected_res
              /\ \A k \in 1..Len(ocr_return) :
                    IsDigitChar(ocr_return[k]) \/ ocr_return[k] = "?"
              /\ \A k \in 1..(Len(boxes) - 1) : boxes[k].bx < boxes[k + 1].bx)
    /\ [](ocr_pc \in {"cell", "pass", "fallback", "append"} => Len(detected_res) = idx)
    /\ [][detected_res' # detected_res =>
              /\ idx < Len(boxes)
              /\ idx' = idx + 1
              /\ detected_res' =
                     Append(detected_res,
                            IF RoiEmpty(boxes[idx + 1]) THEN "?" ELSE found_digit)]_vars

\* the dynamic path was taken for MaxCells cells; a digit and a "?" came back
C16_Witness ==
    /\ ocr_pc = "done"
    /\ pytesseract
    /\ rn_conf.present
    /\ DynamicPath
    /\ Len(ocr_return) = MaxCells
    /\ boxes[1].bw = 52
    /\ ocr_return[1] = "?"
    /\ IsDigitChar(ocr_return[Len(ocr_return)])

\* the other two geometry paths end with a string as well
C16_FallbackPaths ==
    /\ ocr_pc = "done"
    /\ pytesseract
    /\ rn_conf.present
    /\ ~DynamicPath
    /\ Len(ocr_return) = rn_conf.conf.digits

\* a digit-only call that gave a digit: its stripped text is all digits
DigitPassSucceeded(call) ==
    /\ call.mode = "digits"
    /\ call.out # RAISE
    /\ LET c == Strip(call.out)
       IN  Len(c) > 0 /\ \A k \in 1..Len(c) : IsDigitChar(c[k])
\* the digit-only calls of the current cell are made on the variants `order`,
\* each only after all the earlier ones failed, and a call that succeeds is
\* the last of the cell and gives the digit
PassesInOrder(order) ==
    /\ \A k \in 1..Len(calls) :
          calls[k].mode = "digits" =>
              /\ k <= Len(order)
              /\ calls[k].variant = order[k]
              /\ \A j \in 1..(k - 1) :
                    calls[j].mode = "digits" /\ ~DigitPassSucceeded(calls[j])
    /\ \A k \in 1..Len(calls) :
          DigitPassSucceeded(calls[k]) =>
              /\ k = Len(calls)
              /\ ocr_pc \in {"append", "cell", "done"}
              /\ found_digit = Strip(calls[k].out)[1]

\* C17 as stated: the three digit-only passes of a cell go thinned (dilated)
\* first, then unmodified, then thickened (eroded).
C17_AsStated == PassesInOrder(<<"dilated", "original", "eroded">>)

\* C17: the three digit-only passes of a cell go thickened (eroded) first,
\* then unmodified, then thinned (dilated); a later pass is made only if every
\* earlier one failed, and the first pass that succeeds gives the cell's digit.
C17_ErodedFirst == PassesInOrder(<<"eroded", "original", "dilated">>)

\* the first two passes failed and the third, on the thinned image, gave "7"
C17_Witness ==
    /\ ocr_pc = "append"
    /\ Len(calls) = 3
    /\ ~DigitPassSucceeded(calls[1])
    /\ ~DigitPassSucceeded(calls[2])
    /\ calls[3].variant = "dilated"
    /\ DigitPassSucceeded(calls[3])
    /\ found_digit = "7"

\* the digit-only pass made last has won: the loop was left by `break`
LastPassWon ==
    /\ ocr_pc = "append"
    /\ Len(calls) > 0
    /\ calls[Len(calls)].mode = "digits"

\* C18 as stated: a digit-only pass wins only when its stripped result is a
\* single digit character; a result of several characters is not accepted.
C18_AsStated ==
    /\ LastPassWon =>
          LET c == Strip(calls[Len(calls)].out)
          IN  Len(c) = 1 /\ IsDigitChar(c[1])
    /\ \A k \in 1..Len(calls) :
          (calls[k].mode = "digits" /\ calls[k].out # RAISE
               /\ Len(Strip(calls[k].out)) > 1)
              => ~(k = Len(calls) /\ ocr_pc = "append")

\* C18: a digit-only pass wins exactly when its stripped result is not empty
\* and holds only digit characters, however many; the digit of the cell is the
\* first of them.
C18_AllDigitsWin ==
    /\ LastPassWon =>
          LET c == Strip(calls[Len(calls)].out)
          IN  /\ calls[Len(calls)].out # RAISE
              /\ Len(c) >= 1
              /\ \A k \in 1..Len(c) : IsDigitChar(c[k])
              /\ found_digit = c[1]
    /\ \A k \in 1..Len(calls) :
          (calls[k].mode = "digits" /\ calls[k].out # RAISE
               /\ Len(Strip(calls[k].out)) >= 1
               /\ \A j \in 1..Len(Strip(calls[k].out)) :
                      IsDigitChar(Strip(calls[k].out)[j]))
              => (k = Len(calls) /\ ocr_pc \in {"append", "cell", "done"})

\* the text "12" of the first pass gave the digit "1"
C18_Witness ==
    /\ LastPassWon
    /\ Len(calls) = 1
    /\ calls[1].out = <<"1", "2", "\n">>
    /\ found_digit = "1"

\* every unconstrained call of a cell is its fourth call, made after the
\* three digit-only calls failed
FallbackAfterThreeFailures ==
    \A k \in 1..Len(calls) :
        calls[k].mode = "raw" =>
            /\ k = 4
            /\ calls[k].variant = "original"
            /\ \A j \in 1..3 :
                  calls[j].mode = "digits" /\ ~DigitPassSucceeded(calls[j])
\* the cell's character is about to be appended after the unconstrained call
FallbackMade ==
    /\ ocr_pc = "append"
    /\ Len(calls) > 0
    /\ calls[Len(calls)].mode = "raw"
\* the stripped text of the unconstrained call, empty if the call raised
FallbackText ==
    IF calls[Len(calls)].out = RAISE THEN <<>> ELSE Strip(calls[Len(calls)].out)

\* C19 as stated: the unconstrained pass runs only after the three digit-only
\* passes failed; its result becomes a digit only when it is a single symbol
\* of the confusion table, and then the table's digit; otherwise the cell
\* stays "?".
C19_AsStated ==
    /\ FallbackAfterThreeFailures
    /\ FallbackMade =>
          found_digit = IF Len(FallbackText) = 1
                           /\ FallbackText[1] \in DOMAIN Corrections
                        THEN Corrections[FallbackText[1]]
                        ELSE "?"

\* C19: the unconstrained pass runs only after the three digit-only passes
\* failed; an empty result leaves "?"; a result of several characters holding
\* an "A" gives "4"; any other result gives the table's digit for its first
\* character, or "?" if that character is not in the table.
C19_FirstSymbolCorrected ==
    /\ FallbackAfterThreeFailures
    /\ FallbackMade =>
          found_digit =
              IF Len(FallbackText) = 0 THEN "?"
              ELSE IF Len(FallbackText) > 1
                      /\ \E k \in 1..Len(FallbackText) : FallbackText[k] = "A"
              THEN "4"
              ELSE IF FallbackText[1] \in DOMAIN Corrections
              THEN Corrections[FallbackText[1]]
              ELSE "?"

\* the text "$." of the unconstrained call gave the digit "5"
C19_Witness ==
    /\ FallbackMade
    /\ Len(calls) = 4
    /\ calls[4].out = <<"$", ".">>
    /\ found_digit = "5"

\* the text "xA" of the unconstrained call gave the digit "4"
C19_ContainsA ==
    /\ FallbackMade
    /\ calls[Len(calls)].out = <<"x", "A">>
    /\ found_digit = "4"

----------------------------------------------------------------------------
(* Properties of map_bubbles_to_structure *)

\* the identities of the list returned are pairwise different
UniqueIds ==
    \A j, k \in 1..Len(mapped_bubbles) :
        j # k => detected_bubbles[mapped_bubbles[j]].id
                     # detected_bubbles[mapped_bubbles[k]].id

\* the candidates lie at pairwise different positions
DistinctPositions ==
    \A j, k \in 1..Len(detected_bubbles) :
        j # k => <<detected_bubbles[j].x, detected_bubbles[j].y>>
                     # <<detected_bubbles[k].x, detected_bubbles[k].y>>

\* C7: for any list of candidates at pairwise different positions and any
\* layout descriptor, no two marks of the list that map_bubbles_to_structure
\* returns carry the same id, over the identification block, the option-code
\* block and the question blocks together.
C7_UniqueIds == (map_runs >= 1 /\ DistinctPositions) => UniqueIds

\* the layout names fewer identification labels than rows
ShortLabels ==
    /\ template.headerBlocks.rollNumber.present
    /\ "labels" \in DOMAIN template.headerBlocks.rollNumber.conf
    /\ Len(template.headerBlocks.rollNumber.conf.labels)
           < template.headerBlocks.rollNumber.conf.rows

\* the identities are unique under the layouts that name a label for every row
C7_UniqueIdsLabelledRows == (map_runs >= 1 /\ ~ShortLabels) => UniqueIds

\* C8: running map_bubbles_to_structure again on the same candidate list maps
\* the same marks and gives every mark the same identity, group, value and
\* question number as the first run.
C8_RerunDeterministic ==
    map_runs >= 2 =>
        /\ mapped_bubbles = first_run.mapped
        /\ \A k \in 1..Len(detected_bubbles) :
              /\ detected_bubbles[k].id = first_run.bubbles[k].id
              /\ detected_bubbles[k].group = first_run.bubbles[k].group
              /\ detected_bubbles[k].value = first_run.bubbles[k].value
              /\ detected_bubbles[k].question = first_run.bubbles[k].question

\* a second run that mapped identification, option-code and question marks
C8_Witness ==
    /\ map_runs = 2
    /\ \E k \in 1..Len(mapped_bubbles) :
          detected_bubbles[mapped_bubbles[k]].group = RollGroup
    /\ \E k \in 1..Len(mapped_bubbles) :
          detected_bubbles[mapped_bubbles[k]].group = BookletGroup
    /\ \E k \in 1..Len(mapped_bubbles) :
          detected_bubbles[mapped_bubbles[k]].question = 2
    /\ Len(mapped_bubbles) < Len(detected_bubbles)

\* the candidates of the question area
QuestionArea == {k \in 1..Len(detected_bubbles) : detected_bubbles[k].y >= HEADER_Y_LIMIT}
\* the values of vals that start a new group: more than gap above all smaller
\* values of vals
Starts(vals, gap) ==
    {v \in vals : /\ \E u \in vals : u < v
                  /\ \A u \in vals : u < v => v - u > gap}
\* the detected column groups (left to right), for every candidate of the
\* question area its column group and its row in the group (top to bottom) and
\* its place among the marks of its row by x, all 0-based
QuestionLayout ==
    LET b == detected_bubbles
        col_starts == Starts({b[k].x : k \in QuestionArea}, QUESTION_COL_GAP)
        col == [k \in QuestionArea |->
                   Cardinality({v \in col_starts : v <= b[k].x})]
        row_starts == [c \in 0..Cardinality(col_starts) |->
                          Starts({b[k].y : k \in {m \in QuestionArea : col[m] = c}},
                                 ROW_GAP)]
        row == [k \in QuestionArea |->
                   Cardinality({v \in row_starts[col[k]] : v <= b[k].y})]
        rank == [k \in QuestionArea |->
                    Cardinality({m \in QuestionArea :
                                    /\ col[m] = col[k]
                                    /\ row[m] = row[k]
                                    /\ b[m].x < b[k].x})]
    IN  [groups |-> Cardinality(col_starts) + 1, col |-> col, row |-> row,
         rank |-> rank]
\* the block of the layout that is c-th by the x of its origin
BlockOfColumn(c) ==
    LET blocks == template.fieldBlocks
    IN  CHOOSE j \in 1..Len(blocks) :
            Cardinality({m \in 1..Len(blocks) :
                            blocks[m].origin[1] < blocks[j].origin[1]}) = c
DeclaredOptions(c) ==
    Get(template.fieldBlocks[BlockOfColumn(c)].conf, "optionsCount",
        Get(template.fieldDefaults, "optionsCount", DEFAULT_OPTIONS_COUNT))
OptionLetters == <<"A", "B", "C", "D", "E">>
\* the marks that the question step maps: enough marks in the question area,
\* a block of the layout for the column group, and a place within the option
\* count of the block
MarksToMap(layout) ==
    {k \in QuestionArea :
        /\ Cardinality(QuestionArea) >= MIN_QUESTION_BUBBLES
        /\ layout.col[k] < Len(template.fieldBlocks)
        /\ layout.rank[k] < DeclaredOptions(layout.col[k])}
MappedSet == {mapped_bubbles[j] : j \in 1..Len(mapped_bubbles)}

BlockRank(j) ==
    Cardinality({m \in 1..Len(template.fieldBlocks) :
                    template.fieldBlocks[m].origin[1]
                        < template.fieldBlocks[j].origin[1]})
\* the marks mapped to block j
MappedToBlock(j) ==
    {k \in MappedSet : detected_bubbles[k].group = template.fieldBlocks[j].name}

\* C21: with more detected column groups than blocks in the layout, the marks
\* of the groups past the number of blocks are not mapped; with fewer, a block
\* whose place (by origin x) is past the number of groups gets no mark; the
\* run ends with a list in both cases.
C21_GroupsAndBlocksDiffer ==
    map_runs > 0 =>
        LET layout == QuestionLayout
        IN  /\ \A k \in QuestionArea :
                  layout.col[k] >= Len(template.fieldBlocks) => k \notin MappedSet
            /\ \A j \in 1..Len(template.fieldBlocks) :
                  BlockRank(j) >= layout.groups => MappedToBlock(j) = {}
            /\ \A k \in MappedSet : detected_bubbles[k].id # NoKey

\* three column groups on a layout of two blocks: both blocks have marks and
\* the marks of the third group are left unmapped
C21_Witness ==
    /\ map_runs > 0
    /\ Len(template.fieldBlocks) = 2
    /\ LET layout == QuestionLayout
       IN  /\ layout.groups = 3
           /\ \E k \in QuestionArea : layout.col[k] = 2 /\ k \notin MappedSet
           /\ \A j \in 1..2 : MappedToBlock(j) # {}

\* one column group on a layout of three blocks: only the leftmost has marks
C21_BlockWithoutGroup ==
    /\ map_runs > 0
    /\ Len(template.fieldBlocks) = 3
    /\ QuestionLayout.groups = 1
    /\ \E j \in 1..3 : MappedToBlock(j) # {}
    /\ \E j \in 1..3 : BlockRank(j) = 2 /\ MappedToBlock(j) = {}

\* the candidates of the header area that carry an identity
HeaderAnnotated ==
    {k \in 1..Len(detected_bubbles) :
        detected_bubbles[k].y < HEADER_Y_LIMIT /\ detected_bubbles[k].id # NoKey}

RollZone ==
    {k \in 1..Len(detected_bubbles) :
        detected_bubbles[k].y < HEADER_Y_LIMIT /\ detected_bubbles[k].x < HEADER_X_SPLIT}
\* for every candidate of the zone its column (cut where the x of the zone
\* grows by more than 30) and its place from the top of the column, 0-based
RollLayout ==
    LET b == detected_bubbles
        col_starts == Starts({b[k].x : k \in RollZone}, ROLL_COL_GAP)
        col == [k \in RollZone |-> Cardinality({v \in col_starts : v <= b[k].x})]
        row == [k \in RollZone |->
                   Cardinality({m \in RollZone : col[m] = col[k] /\ b[m].y < b[k].y})]
    IN  [col |-> col, row |-> row]
\* rows, digits and labels of the rollNumber section, with their defaults
DeclaredRows == Get(template.headerBlocks.rollNumber.conf, "rows", DEFAULT_ROWS)
DeclaredDigits == Get(template.headerBlocks.rollNumber.conf, "digits", DEFAULT_DIGITS)
DeclaredLabels ==
    Get(template.headerBlocks.rollNumber.conf, "labels",
        [r \in 1..DeclaredRows |-> Digits[r]])
\* the zone is cut into columns and rows, a mark is mapped exactly if its
\* column is below the digit count and its row below the row count, and a
\* mapped mark of column d and row r has the label LabelOfRow(r)
RollMapping(LabelOfRow(_)) ==
    (map_runs > 0 /\ template.headerBlocks.rollNumber.present) =>
        LET layout == RollLayout
        IN  \A k \in RollZone :
                IF layout.col[k] < DeclaredDigits /\ layout.row[k] < DeclaredRows
                THEN /\ k \in MappedSet
                     /\ detected_bubbles[k].group = RollGroup
                     /\ LabelOfRow(layout.row[k]) # Absent
                     /\ detected_bubbles[k].value = LabelOfRow(layout.row[k])
                     /\ detected_bubbles[k].id =
                            RollId(layout.col[k], detected_bubbles[k].value)
                ELSE k \notin MappedSet /\ detected_bubbles[k].id = NoKey
\* the label the layout lists for row r, if it lists one
ListedLabel(r) == IF r < Len(DeclaredLabels) THEN DeclaredLabels[r + 1] ELSE Absent
\* the label the layout lists for row r, or the row index as text
ListedLabelOrIndex(r) ==
    IF r < Len(DeclaredLabels) THEN DeclaredLabels[r + 1] ELSE Digits[r + 1]

\* C23: the i-th mark from the top of the d-th column of the identification
\* zone receives the i-th label of the layout; marks of columns past the
\* digit count or rows past the row count are not mapped.
C23_AsStated == RollMapping(ListedLabel)

\* what the code does: the i-th mark from the top of a column receives the
\* i-th label of the layout, or the row index as text if the layout lists
\* fewer labels
C23_LabelOrRowIndex == RollMapping(ListedLabelOrIndex)

\* a layout with two labels for three rows: the third mark of a column has the
\* row index "2" as its value, and a fourth mark of the column is not mapped
C23_Witness ==
    /\ map_runs > 0
    /\ template.headerBlocks.rollNumber.present
    /\ Len(DeclaredLabels) = 2
    /\ DeclaredRows = 3
    /\ LET layout == RollLayout
       IN  /\ \E k \in RollZone :
                 /\ layout.col[k] = 1
                 /\ layout.row[k] = 2
                 /\ detected_bubbles[k].value = "2"
           /\ \E k \in RollZone : layout.row[k] = 3 /\ k \notin MappedSet

\* a layout of one digit: the marks of the second column are not mapped
C23_ColumnPastDigits ==
    /\ map_runs > 0
    /\ template.headerBlocks.rollNumber.present
    /\ DeclaredDigits = 1
    /\ \E k \in RollZone : RollLayout.col[k] = 1 /\ k \notin MappedSet

\* the candidates of the list as detected, before any mapping
Unmapped ==
    [k \in 1..Len(detected_bubbles) |->
        Candidate(detected_bubbles[k].x, detected_bubbles[k].y)]
\* the candidates as annotated by a run on the list in the reverse order,
\* brought back to the order of detected_bubbles
MappedInReverse == Reverse(MapBubblesToStructure(Reverse(Unmapped), template).bubbles)
SameMapping(b, c) ==
    /\ b.id = c.id
    /\ b.group = c.group
    /\ b.value = c.value
    /\ b.question = c.question
\* two candidates of the option-code zone have the same x
OptionCodeTie ==
    \E j, k \in 1..Len(detected_bubbles) :
        /\ j # k
        /\ detected_bubbles[j].y < HEADER_Y_LIMIT
        /\ detected_bubbles[k].y < HEADER_Y_LIMIT
        /\ detected_bubbles[j].x > HEADER_X_SPLIT
        /\ detected_bubbles[j].x = detected_bubbles[k].x

\* C29: the result of map_bubbles_to_structure does not depend on the order
\* of the candidates: listed in the reverse order, every candidate (at
\* pairwise different positions) gets the same identity, group, value and
\* question number, also with option-code marks of the same x.
C29_OrderIndependent ==
    (map_runs = 1 /\ DistinctPositions) =>
        LET other == MappedInReverse
        IN  \A k \in 1..Len(detected_bubbles) :
                SameMapping(detected_bubbles[k], other[k])

\* the result is the same in the reverse order when no two candidates of the
\* option-code zone have the same x
C29_OrderIndependentWithoutTie ==
    (map_runs = 1 /\ DistinctPositions /\ ~OptionCodeTie) =>
        LET other == MappedInReverse
        IN  \A k \in 1..Len(detected_bubbles) :
                SameMapping(detected_bubbles[k], other[k])

----------------------------------------------------------------------------
(* Properties of scan_for_bubbles *)

\* C9: duplicate suppression, the greedy pass in descending order of area at
\* the end of scan_for_bubbles, is idempotent: applied to its own output it
\* keeps every candidate.
C9_SuppressIdempotent == det_pc = "done" => resuppressed = final_bubbles

\* a scan that suppressed a duplicate and kept two bubbles
C9_Witness ==
    /\ det_pc = "done"
    /\ Len(final_bubbles) >= 2
    /\ Len(final_bubbles) < Len(Candidates(contours, radius))

\* 0.5 * pi * r^2 <= area <= 5.0 * pi * r^2 and circularity > 0.85
WithinBounds(area2, circ, r) ==
    /\ ~AreaBelow(area2, r, 5)
    /\ ~AreaAbove(area2, r, 50)
    /\ ~NotCircular(circ)

\* C10: every candidate that scan_for_bubbles returns has an area between 0.5
\* and 5.0 times the expected area pi * r^2 of the nominal radius r and a
\* circularity above 0.85; a contour violating either bound is never returned.
C10_DetectorBounds ==
    det_pc \in {"scanned", "done"} =>
        \A k \in 1..Len(final_bubbles) :
            /\ WithinBounds(final_bubbles[k].area2, final_bubbles[k].circ, radius)
            /\ \E j \in 1..Len(contours) :
                  /\ final_bubbles[k].x = contours[j].cx
                  /\ final_bubbles[k].y = contours[j].cy
                  /\ final_bubbles[k].area2 = contours[j].area2
                  /\ final_bubbles[k].circ
                         = Circularity(contours[j].area2, contours[j].perimeter)
                  /\ contours[j].perimeter # 0
                  /\ WithinBounds(contours[j].area2,
                                  Circularity(contours[j].area2, contours[j].perimeter),
                                  radius)

\* a scan that returned a bubble and dropped a contour that is too large, or
\* too small, or not round
C10_Witness ==
    /\ det_pc = "scanned"
    /\ Len(final_bubbles) >= 1
    /\ \E j \in 1..Len(contours) :
          /\ contours[j].perimeter # 0
          /\ ~WithinBounds(contours[j].area2,
                           Circularity(contours[j].area2, contours[j].perimeter),
                           radius)

\* the squared distance of the centers of two candidates
Dist2(c, d) == (c.x - d.x) * (c.x - d.x) + (c.y - d.y) * (c.y - d.y)
\* the candidates in the order of the contours, before suppression
Unsuppressed == Candidates(contours, radius)
Kept(c) == \E k \in 1..Len(final_bubbles) : final_bubbles[k] = c
\* candidate m of the list wins over candidate j: it is kept, less than 10 px
\* away, and larger, or as large and listed earlier
WinsOver(list, m, j) ==
    /\ Kept(list[m])
    /\ Dist2(list[m], list[j]) < 100
    /\ \/ list[m].area2 > list[j].area2
       \/ list[m].area2 = list[j].area2 /\ m < j

\* C24: after duplicate suppression no two kept candidates are less than 10 px
\* apart, and every discarded candidate is less than 10 px from a kept one
\* that is larger, or as large and earlier in the list.
C24_SuppressionInvariant ==
    det_pc \in {"scanned", "done"} =>
        /\ \A j, k \in 1..Len(final_bubbles) :
              j # k => Dist2(final_bubbles[j], final_bubbles[k]) >= 100
        /\ \A k \in 1..Len(final_bubbles) :
              \E j \in 1..Len(Unsuppressed) : Unsuppressed[j] = final_bubbles[k]
        /\ \A j \in 1..Len(Unsuppressed) :
              ~Kept(Unsuppressed[j]) =>
                  \E m \in 1..Len(Unsuppressed) : WinsOver(Unsuppressed, m, j)

\* two candidates of equal area 9 px apart: the one listed second was
\* discarded, and a bubble elsewhere was kept as well
C24_Witness ==
    /\ det_pc = "scanned"
    /\ Len(final_bubbles) = 2
    /\ \E j, m \in 1..Len(Unsuppressed) :
          /\ m < j
          /\ ~Kept(Unsuppressed[j])
          /\ Kept(Unsuppressed[m])
          /\ Unsuppressed[m].area2 = Unsuppressed[j].area2
          /\ Dist2(Unsuppressed[m], Unsuppressed[j]) = 81

----------------------------------------------------------------------------
(* Properties of evaluate_bubbles *)

\* the layout's bubbleStyle.fillThreshold when present, 0.35 otherwise
StatedThreshold ==
    IF "fillThreshold" \in DOMAIN bubble_style THEN bubble_style.fillThreshold
    ELSE <<35, 100>>

C12_RatioInUnitInterval ==
    eval_pc = "done" =>
        \A k \in 1..Len(eval_bubbles) :
            LET ratio == eval_bubbles[k].fill_ratio
                above_one == ratio.n > 0 /\ RatioAtLeast(ratio, <<1, 1>>)
                below_one == RatioBelow(ratio, <<1, 1>>)
            IN  /\ ratio.n >= 0 /\ ~above_one
                /\ thresh_img[k] = 0 => ratio.n = 0
                /\ thresh_img[k] = DiskPixels(MaskRadius(eval_bubbles[k].r))
                       => ~above_one /\ ~below_one

\* the ratio is above 1: more pixels in the drawn disk than pi * mask_radius^2
C12_AboveOne ==
    eval_pc = "done" =>
        \A k \in 1..Len(eval_bubbles) :
            ~(eval_bubbles[k].fill_ratio.n > 0 /\ RatioAtLeast(eval_bubbles[k].fill_ratio, <<1, 1>>))

====
